---- MODULE Spec2Model ----
(***************************************************************************)
(* MyFlow tracker: the analysis core of analysis_logic.py and app.py.      *)
(*                                                                         *)
(* Numbers.  Python floats are modelled by exact integers:                 *)
(*   - sleep_hours is kept in half hours (12 = 6.0 h, 16 = 8.0 h);         *)
(*   - every load (TNL and its contribution columns) is kept in units of   *)
(*     1/Scale, so that study/900*10 and (8 - sleep)*1.5 are integers;     *)
(*   - mean and standard deviation are kept as exact fractions, and the    *)
(*     comparison  x > mean + std  is decided on the squares.              *)
(***************************************************************************)
EXTENDS Integers, Sequences, FiniteSets, TLC

VARIABLES
    data,            \* the submitted batch: the JSON list of daily records
    df,              \* the per-day table (metrics_df), a sequence of rows
    is_vulnerable,   \* verdict of determine_sleep_vulnerability for the batch
    baseline_df,     \* generate_pacing_recommendation's baseline window
    recommendation,  \* the dictionary generate_pacing_recommendation returns
    analysis,        \* the dictionary an analysis function returns
    x_values,        \* calculate_pearson_correlation's first argument
    y_values,        \* calculate_pearson_correlation's second argument
    calls,           \* the calls this process has answered, oldest first
    pc               \* where the request is

vars == <<data, df, is_vulnerable, baseline_df, recommendation, analysis,
          x_values, y_values, calls, pc>>

----------------------------------------------------------------------------
(* Program constants *)

STUDY_MINUTES_MAX == 900
SLEEP_HOURS_THRESHOLD == 8
LOW_SLEEP == 6
HIGH_TICS == 5
MIN_BASELINE_DAYS == 7

\* SLEEP_PENALTY_WEIGHT = 1.5 as the fraction 3/2
SLEEP_PENALTY_WEIGHT == [num |-> 3, den |-> 2]

\* one load unit = 1/Scale: study*10/900 = study/90, and a half hour of sleep
\* deficit weighs 1.5/2 = 3/4
Scale == 2 * (STUDY_MINUTES_MAX \div 10)

----------------------------------------------------------------------------
(* Bounds of the model *)

MaxDays == 9

----------------------------------------------------------------------------
(* Series helpers (pandas Series.mean / Series.std / iloc) *)

RECURSIVE SeqSum(_)
SeqSum(s) == IF s = <<>> THEN 0 ELSE Head(s) + SeqSum(Tail(s))

Column(rows, col) == [i \in 1..Len(rows) |-> rows[i][col]]

\* Series.mean(): the exact fraction sum/n
SeriesMean(xs) == [num |-> SeqSum(xs), den |-> Len(xs)]

\* Series.std() squared, pandas default ddof=1 (sample variance):
\* (sum x^2 - (sum x)^2/n) / (n-1) = (n*sum x^2 - (sum x)^2) / (n*(n-1))
SeriesVar(xs) ==
    LET n == Len(xs)
        s == SeqSum(xs)
        q == SeqSum([i \in 1..n |-> xs[i] * xs[i]])
    IN  [num |-> n * q - s * s, den |-> n * (n - 1)]

\* df.iloc[lo:hi] for 0-based Python bounds already resolved to 0 <= lo <= hi <= len
IlocSlice(rows, lo, hi) == SubSeq(rows, lo + 1, hi)

\* Python's resolution of a negative slice bound against a length
SliceBound(k, len) == IF k < 0 THEN (IF len + k < 0 THEN 0 ELSE len + k)
                      ELSE (IF k > len THEN len ELSE k)

Iloc(rows, lo, hi) ==
    LET a == SliceBound(lo, Len(rows))
        b == SliceBound(hi, Len(rows))
    IN  IF b < a THEN <<>> ELSE IlocSlice(rows, a, b)

----------------------------------------------------------------------------
(* generate_pacing_recommendation *)

\* a bug: the window df.iloc[-7:], which holds the evaluated day itself
BaselineWindow_WithLatest(rows) == Iloc(rows, -7, Len(rows))

\* baseline_df = df.iloc[-8:-1] if len(df) >= 8 else df.iloc[:-1]
BaselineWindow(rows) ==
    IF Len(rows) >= 8 THEN Iloc(rows, -8, -1) ELSE Iloc(rows, 0, -1)

\* threshold = mu + sigma, kept exact as the pair (mean, variance)
Threshold(xs) == [mu |-> SeriesMean(xs), var |-> SeriesVar(xs)]

\* a bug: >= in place of >, so a value on the threshold counts as a spike
IsSpiking_NotStrict(latest, th) ==
    LET d == latest * th.mu.den - th.mu.num
    IN  /\ d >= 0
        /\ d * d * th.var.den >= th.var.num * th.mu.den * th.mu.den

\* latest > mu + sigma, with mu = mu.num/mu.den and sigma = sqrt(var.num/var.den):
\* latest - mu > sigma  iff  latest - mu > 0 and (latest - mu)^2 > sigma^2
IsSpiking(latest, th) ==
    LET d == latest * th.mu.den - th.mu.num
    IN  /\ d > 0
        /\ d * d * th.var.den > th.var.num * th.mu.den * th.mu.den

\* the decision matrix
DecisionMatrix(load_spiking, tics_spiking) ==
    IF load_spiking /\ tics_spiking THEN "ADAPTIVE PACING ALERT"
    ELSE IF load_spiking /\ ~tics_spiking THEN "HIGH LOAD WARNING"
    ELSE IF ~load_spiking /\ tics_spiking THEN "UNUSUAL SPIKE"
    ELSE "GREEN LIGHT"

\* the dictionary returned once a baseline exists (the same in both services)
PacingVerdict(rows) ==
    LET latest_day == rows[Len(rows)]
        base == BaselineWindow(rows)
        threshold_load == Threshold(Column(base, "TNL"))
        threshold_tics == Threshold(Column(base, "tics"))
        load_spiking == IsSpiking(latest_day.TNL, threshold_load)
        tics_spiking == IsSpiking(latest_day.tics, threshold_tics)
        state == DecisionMatrix(load_spiking, tics_spiking)
    IN  [pacing_state |-> state,
         message |-> state,
         latest_load |-> latest_day.TNL,
         load_threshold |-> threshold_load]

ZeroThreshold == [mu |-> [num |-> 0, den |-> 1], var |-> [num |-> 0, den |-> 1]]

\* a bug: the guard len(df) < 6, which lets a 6-day table through
PacingAnalysisLogic_SixDays(rows) ==
    IF Len(rows) < MIN_BASELINE_DAYS - 1
    THEN [pacing_state |-> "BASELINE NEEDED",
          message |-> "Insufficient data (less than 7 days)",
          latest_load |-> 0,
          load_threshold |-> ZeroThreshold]
    ELSE PacingVerdict(rows)

\* analysis_logic.py: the insufficient-data answer carries 0.0 / 0.0
PacingAnalysisLogic(rows) ==
    IF Len(rows) < MIN_BASELINE_DAYS
    THEN [pacing_state |-> "BASELINE NEEDED",
          message |-> "Insufficient data (less than 7 days)",
          latest_load |-> 0,
          load_threshold |-> ZeroThreshold]
    ELSE PacingVerdict(rows)

\* app.py: the insufficient-data answer has only the state and the message
PacingApp(rows) ==
    IF Len(rows) < MIN_BASELINE_DAYS
    THEN [pacing_state |-> "Baseline Needed",
          message |-> "Continue tracking data for 7 days"]
    ELSE PacingVerdict(rows)

NoRecommendation == [pacing_state |-> "(none)"]

\* no analysis function has returned yet
NoAnalysis == [error |-> "(none)"]

\* a function left by an exception
Raises(exception) == [raises |-> exception]

\* the window the function computed, <<>> when it returned early
WindowUsed(rows) ==
    IF Len(rows) < MIN_BASELINE_DAYS THEN <<>> ELSE BaselineWindow(rows)

----------------------------------------------------------------------------
(* Daily records.  A JSON field is <<v>> when it holds the number v, <<>>   *)
(* when the record has no such key, and Null when it holds null, a value   *)
(* that is not a number.  A custom factor is [name, level, effect].        *)

Null == <<0, 0>>

\* pd.to_numeric(column, errors='coerce').fillna(default): a cell that is
\* NaN (no key in that record) or not a number gets the default
ToNumeric(field, default) ==
    IF field = <<>> \/ field = Null THEN default ELSE field[1]

\* entry.get(section, {}).get(key, default): the default for a missing key
\* only, a null is handed on
Get(field, default) ==
    IF field = <<>> THEN <<default>> ELSE field

\* df[column] exists when some record of the batch carries the key
HasColumn(batch, column) == \E k \in 1..Len(batch) : batch[k][column] # <<>>

Min(a, b) == IF a < b THEN a ELSE b
Max(a, b) == IF a > b THEN a ELSE b

\* a bug: the study time not capped at 900 minutes
NormalizedStudy_Uncapped(study_minutes) ==
    (study_minutes * 10 * Scale) \div STUDY_MINUTES_MAX

\* (study.clip(upper=900) / 900) * 10, in units of 1/Scale
NormalizedStudy(study_minutes) ==
    (Min(study_minutes, STUDY_MINUTES_MAX) * 10 * Scale) \div STUDY_MINUTES_MAX

\* analysis_logic.py process_custom: impact = level * effect
ImpactAnalysisLogic(factor) == factor.level * factor.effect

\* app.py process_custom: impact = effect
ImpactApp(factor) == factor.effect

\* a bug: every impact summed, the negative ones too
PosImpact_AllImpacts(impacts) == SeqSum(impacts)

\* pos_impact of process_custom: the sum of the impacts > 0
RECURSIVE PosImpact(_)
PosImpact(impacts) ==
    IF impacts = <<>> THEN 0
    ELSE (IF Head(impacts) > 0 THEN Head(impacts) ELSE 0) + PosImpact(Tail(impacts))

\* neg_impact of process_custom: the sum of the impacts < 0
RECURSIVE NegImpact(_)
NegImpact(impacts) ==
    IF impacts = <<>> THEN 0
    ELSE (IF Head(impacts) < 0 THEN Head(impacts) ELSE 0) + NegImpact(Tail(impacts))

ImpactsAnalysisLogic(custom) ==
    [k \in 1..Len(custom) |-> ImpactAnalysisLogic(custom[k])]

ImpactsApp(custom) == [k \in 1..Len(custom) |-> ImpactApp(custom[k])]

----------------------------------------------------------------------------
(* determine_sleep_vulnerability *)

VULNERABILITY_RATIO == [num |-> 7, den |-> 10]
MIN_LOW_SLEEP_DAYS == 3

\* baseline_df['physiological.sleep_hours'] <= LOW_SLEEP (sleep in half hours)
IsLowSleep(row) == row.sleep_hours <= 2 * LOW_SLEEP

\* low_sleep_days['tics'] >= HIGH_TICS
IsHighTics(row) == row.tics >= HIGH_TICS

\* a bug: > in place of >=, so a ratio of exactly 0.7 is not a vulnerability
RatioConfirms_Strict(high, low) ==
    high * VULNERABILITY_RATIO.den > VULNERABILITY_RATIO.num * low

\* correlation_ratio >= 0.7 with correlation_ratio = high / low
RatioConfirms(high, low) ==
    high * VULNERABILITY_RATIO.den >= VULNERABILITY_RATIO.num * low

\* the frame the verdict is computed from: df.iloc[:-1] if len(df) > 1 else df
HistoricalDays(frame) == IF Len(frame) > 1 THEN Iloc(frame, 0, -1) ELSE frame

DetermineSleepVulnerability(frame) ==
    LET low_sleep_days == SelectSeq(HistoricalDays(frame), IsLowSleep)
        high_tic_on_low_sleep == SelectSeq(low_sleep_days, IsHighTics)
    IN  IF Len(low_sleep_days) < MIN_LOW_SLEEP_DAYS
        THEN FALSE
        ELSE RatioConfirms(Len(high_tic_on_low_sleep), Len(low_sleep_days))

----------------------------------------------------------------------------
(* calculate_daily_metrics *)

\* a bug: a missing sleep_hours filled with 0 like the other fields
FrameAnalysisLogic_SleepFilledWithZero(batch) ==
    [i \in 1..Len(batch) |->
        [src |-> i,
         date |-> batch[i].date,
         study_minutes |-> ToNumeric(batch[i].study_minutes, 0),
         stress |-> ToNumeric(batch[i].stress, 0),
         tics |-> ToNumeric(batch[i].tic_count, 0),
         sleep_hours |-> ToNumeric(batch[i].sleep_hours, 0),
         positive_custom_impact |-> PosImpact(ImpactsAnalysisLogic(batch[i].custom)),
         negative_custom_impact |-> NegImpact(ImpactsAnalysisLogic(batch[i].custom))]]

\* the working frame of analysis_logic.py, one row per record in the order
\* of submission; src is the position of the record in the batch
FrameAnalysisLogic(batch) ==
    [i \in 1..Len(batch) |->
        [src |-> i,
         date |-> batch[i].date,
         study_minutes |-> ToNumeric(batch[i].study_minutes, 0),
         stress |-> ToNumeric(batch[i].stress, 0),
         tics |-> ToNumeric(batch[i].tic_count, 0),
         sleep_hours |-> ToNumeric(batch[i].sleep_hours, 2 * SLEEP_HOURS_THRESHOLD),
         positive_custom_impact |-> PosImpact(ImpactsAnalysisLogic(batch[i].custom)),
         negative_custom_impact |-> NegImpact(ImpactsAnalysisLogic(batch[i].custom))]]

\* a bug: the penalty applied whatever the verdict is
SleepPenalty_Unconditional(vulnerable, sleep_hours) ==
    (Max(2 * SLEEP_HOURS_THRESHOLD - sleep_hours, 0) * SLEEP_PENALTY_WEIGHT.num * Scale)
        \div (2 * SLEEP_PENALTY_WEIGHT.den)

\* (SLEEP_HOURS_THRESHOLD - sleep).clip(lower=0) * SLEEP_PENALTY_WEIGHT if the
\* batch is vulnerable, else 0; sleep in half hours, the result in 1/Scale
SleepPenalty(vulnerable, sleep_hours) ==
    IF vulnerable
    THEN (Max(2 * SLEEP_HOURS_THRESHOLD - sleep_hours, 0) * SLEEP_PENALTY_WEIGHT.num * Scale)
            \div (2 * SLEEP_PENALTY_WEIGHT.den)
    ELSE 0

\* a bug: the protective impact subtracted from the load
TotalNegativeLoad_WithRelief(stress, study, pos, neg, penalty) ==
    stress + study + pos + neg + penalty

\* total_negative_load = stress + normalized_study + positive impact (+ penalty)
TotalNegativeLoad(stress, study, pos, neg, penalty) ==
    stress + study + pos + penalty

\* a bug: the stress contribution clamped at 0
StressContrib_Clamped(stress) == Max(stress, 0) * Scale

\* stress_contrib: the stress as given
StressContrib(stress) == stress * Scale

\* one row of analysis_logic.py's metrics_df
MetricsRowAnalysisLogic(r, vulnerable) ==
    LET stress == StressContrib(r.stress)
        study == NormalizedStudy(r.study_minutes)
        pos == r.positive_custom_impact * Scale
        neg == r.negative_custom_impact * Scale
        penalty == SleepPenalty(vulnerable, r.sleep_hours)
    IN  [src |-> r.src,
         date |-> r.date,
         tics |-> r.tics,
         TNL |-> TotalNegativeLoad(stress, study, pos, neg, penalty),
         stress_contrib |-> stress,
         study_contrib |-> study,
         pos_custom_contrib |-> pos,
         sleep_penalty_contrib |-> penalty,
         raw_neg_impact |-> neg]

\* one row of app.py's metrics_df: no sleep penalty, impact = effect
MetricsRowApp(entry, i) ==
    LET stress == StressContrib(ToNumeric(entry.stress, 0))
        study == NormalizedStudy(ToNumeric(entry.study_minutes, 0))
        pos == PosImpact(ImpactsApp(entry.custom)) * Scale
        neg == NegImpact(ImpactsApp(entry.custom)) * Scale
    IN  [src |-> i,
         date |-> entry.date,
         tics |-> ToNumeric(entry.tic_count, 0),
         TNL |-> TotalNegativeLoad(stress, study, pos, neg, 0),
         stress_contrib |-> stress,
         study_contrib |-> study,
         pos_custom_contrib |-> pos,
         neg_custom_contrib |-> IF neg < 0 THEN -neg ELSE neg,
         raw_neg_impact |-> neg]

\* a record without the date key: its date is NaN in the frame, NaT after
\* pd.to_datetime, and 'Unknown' for entry.get('date', 'Unknown').  The
\* dates proper are the integers from 1.
NoDate == 0

\* the order of the index: ascending, NaT last (na_position='last')
NotAfter(a, b) == b = NoDate \/ (a # NoDate /\ a <= b)

\* df['date'] exists when some record carries the key
HasDateColumn(batch) == \E k \in 1..Len(batch) : batch[k].date # NoDate

\* the columns analysis_logic.py's calculate_daily_metrics reads are there
\* (the custom list of a record is always there in the model)
HasColumnsAnalysisLogic(batch) ==
    /\ HasColumn(batch, "study_minutes")
    /\ HasColumn(batch, "stress")
    /\ HasColumn(batch, "tic_count")
    /\ HasColumn(batch, "sleep_hours")
    /\ HasDateColumn(batch)

\* the columns app.py's calculate_daily_metrics reads are there
HasColumnsApp(batch) ==
    /\ HasColumn(batch, "study_minutes")
    /\ HasColumn(batch, "stress")
    /\ HasColumn(batch, "tic_count")
    /\ HasDateColumn(batch)

\* the orders sort_index() may put the row positions in: ascending by date.
\* The default sort (quicksort) is not stable, so rows of one date come in
\* any order.
RECURSIVE SortOrders(_, _)
SortOrders(dates, left) ==
    IF left = {} THEN {<<>>}
    ELSE LET first == {i \in left : \A j \in left : NotAfter(dates[i], dates[j])}
         IN  UNION {{<<i>> \o rest : rest \in SortOrders(dates, left \ {i})}
                    : i \in first}

\* set_index('date').sort_index()
SortIndex(rows) ==
    LET dates == [i \in 1..Len(rows) |-> rows[i].date]
    IN  {[k \in 1..Len(rows) |-> rows[p[k]]] : p \in SortOrders(dates, 1..Len(rows))}

----------------------------------------------------------------------------
(* Specifications of calculate_daily_metrics: the client puts a batch      *)
(* together record by record, submits it, and one of the two services      *)
(* computes its per-day table.                                             *)

MaxBatch == 4

Entry(date, sleep, stress, study, tics, custom) ==
    [date |-> date, sleep_hours |-> sleep, stress |-> stress,
     study_minutes |-> study, tic_count |-> tics, custom |-> custom]

InitBatch ==
    /\ data = <<>>
    /\ df = <<>>
    /\ is_vulnerable = FALSE
    /\ baseline_df = <<>>
    /\ recommendation = NoRecommendation
    /\ analysis = NoAnalysis
    /\ x_values = <<>>
    /\ y_values = <<>>
    /\ calls = <<>>
    /\ pc = "batch"

\* one more record in the batch
Submit(entry) ==
    /\ pc = "batch"
    /\ Len(data) < MaxBatch
    /\ data' = Append(data, entry)
    /\ UNCHANGED <<df, is_vulnerable, baseline_df, recommendation, pc,
                 analysis, x_values, y_values, calls>>

\* analysis_logic.py; an empty batch has no columns and raises a KeyError,
\* and so does df[column] when no record of the batch has the key
CalculateDailyMetricsAnalysisLogic ==
    /\ pc = "batch"
    /\ data # <<>>
    /\ IF HasColumnsAnalysisLogic(data)
       THEN LET frame == FrameAnalysisLogic(data)
                vulnerable == DetermineSleepVulnerability(frame)
                rows == [i \in 1..Len(frame) |->
                            MetricsRowAnalysisLogic(frame[i], vulnerable)]
            IN  /\ is_vulnerable' = vulnerable
                /\ df' \in SortIndex(rows)
                /\ pc' = "metrics_analysis_logic"
                /\ UNCHANGED analysis
       ELSE /\ analysis' = Raises("KeyError")
            /\ pc' = "raised"
            /\ UNCHANGED <<df, is_vulnerable>>
    /\ UNCHANGED <<data, baseline_df, recommendation, x_values, y_values, calls>>

\* app.py
CalculateDailyMetricsApp ==
    /\ pc = "batch"
    /\ data # <<>>
    /\ IF HasColumnsApp(data)
       THEN LET rows == [i \in 1..Len(data) |-> MetricsRowApp(data[i], i)]
            IN  /\ df' \in SortIndex(rows)
                /\ pc' = "metrics_app"
                /\ UNCHANGED analysis
       ELSE /\ analysis' = Raises("KeyError")
            /\ pc' = "raised"
            /\ UNCHANGED df
    /\ UNCHANGED <<data, is_vulnerable, baseline_df, recommendation,
                   x_values, y_values, calls>>

\* <<sleep in half hours, tics>>: a short night with many tics, a short
\* night with few, a night of 6.5 hours, a night of 9 hours
Nights == {<<12, 5>>, <<12, 4>>, <<13, 5>>, <<18, 4>>}

\* batches that vary the sleep, the symptom count and the order of the
\* dates; the date is a unique key of the batch
SubmitNight ==
    \E d \in 1..MaxBatch, st \in Nights :
        /\ \A k \in 1..Len(data) : data[k].date # d
        /\ Submit(Entry(d, <<st[1]>>, <<1>>, <<90>>, <<st[2]>>, <<>>))

NextSleep == SubmitNight \/ CalculateDailyMetricsAnalysisLogic

SpecSleep == InitBatch /\ [][NextSleep]_vars

Aggravating == [name |-> "caffeine", level |-> 2, effect |-> 1]
Protective == [name |-> "walk", level |-> 3, effect |-> -4]

\* <<stress, study_minutes>>: a negative stress, a negative study time, and
\* a valid pair; 1000 minutes are over the cap
Workloads == {<<-1, 1000>>, <<2, -90>>, <<2, 450>>}

\* batches that vary the stress, the study time and the custom factors, in
\* ascending date order; a day is a short night with many tics or a full
\* night with none, and has an aggravating factor with or without a
\* protective one
SubmitWorkday ==
    \E st \in {<<12, 5>>, <<16, 0>>}, w \in Workloads,
       c \in {<<Aggravating>>, <<Aggravating, Protective>>} :
        Submit(Entry(Len(data) + 1, <<st[1]>>, <<w[1]>>, <<w[2]>>, <<st[2]>>, c))

NextLoad ==
    SubmitWorkday \/ CalculateDailyMetricsAnalysisLogic \/ CalculateDailyMetricsApp

SpecLoad == InitBatch /\ [][NextLoad]_vars

----------------------------------------------------------------------------
(* Specification of determine_sleep_vulnerability alone: a frame of days   *)
(* (sleep_hours in half hours, tics) is built and the verdict computed.    *)

MaxFrame == 11

\* a short night with many tics, a short night with few, a longer night
FrameNights == {<<12, 5>>, <<12, 4>>, <<13, 5>>}

InitVulnerability ==
    /\ data = <<>>
    /\ df = <<>>
    /\ is_vulnerable = FALSE
    /\ baseline_df = <<>>
    /\ recommendation = NoRecommendation
    /\ analysis = NoAnalysis
    /\ x_values = <<>>
    /\ y_values = <<>>
    /\ calls = <<>>
    /\ pc = "frame"

AppendDay ==
    /\ pc = "frame"
    /\ Len(df) < MaxFrame
    /\ \E st \in FrameNights :
         df' = Append(df, [sleep_hours |-> st[1], tics |-> st[2]])
    /\ UNCHANGED <<data, is_vulnerable, baseline_df, recommendation, pc,
                 analysis, x_values, y_values, calls>>

DetermineVerdict ==
    /\ pc = "frame"
    /\ is_vulnerable' = DetermineSleepVulnerability(df)
    /\ pc' = "verdict"
    /\ UNCHANGED <<data, df, baseline_df, recommendation,
                 analysis, x_values, y_values, calls>>

NextVulnerability == AppendDay \/ DetermineVerdict

SpecVulnerability == InitVulnerability /\ [][NextVulnerability]_vars

----------------------------------------------------------------------------
(* Specification of the spike detector: a per-day table is built row by    *)
(* row in ascending date order and handed to generate_pacing_recommendation*)

LoadValues == {0, 1}
TicValues == {0, 1}

InitPacing ==
    /\ data = <<>>
    /\ df = <<>>
    /\ is_vulnerable = FALSE
    /\ baseline_df = <<>>
    /\ recommendation = NoRecommendation
    /\ analysis = NoAnalysis
    /\ x_values = <<>>
    /\ y_values = <<>>
    /\ calls = <<>>
    /\ pc = "table"

\* one more day of the table; the index is sorted, so the date is the next one
AppendRow ==
    /\ pc = "table"
    /\ Len(df) < MaxDays
    /\ \E l \in LoadValues, t \in TicValues :
         df' = Append(df, [date |-> Len(df) + 1, TNL |-> l, tics |-> t])
    /\ UNCHANGED <<data, is_vulnerable, baseline_df, recommendation, pc,
                 analysis, x_values, y_values, calls>>

RecommendAnalysisLogic ==
    /\ pc = "table"
    /\ recommendation' = PacingAnalysisLogic(df)
    /\ baseline_df' = WindowUsed(df)
    /\ pc' = "paced_analysis_logic"
    /\ UNCHANGED <<data, df, is_vulnerable, analysis, x_values, y_values, calls>>

RecommendApp ==
    /\ pc = "table"
    /\ recommendation' = PacingApp(df)
    /\ baseline_df' = WindowUsed(df)
    /\ pc' = "paced_app"
    /\ UNCHANGED <<data, df, is_vulnerable, analysis, x_values, y_values, calls>>

NextPacing == AppendRow \/ RecommendAnalysisLogic \/ RecommendApp

SpecPacing == InitPacing /\ [][NextPacing]_vars

Paced == pc \in {"paced_analysis_logic", "paced_app"}

(* C1: a table of fewer than 7 rows (0 to 6) gets the insufficient-data    *)
(* state and none of the four verdicts; a table of 7 or more rows gets     *)
(* exactly one of the four verdicts.                                       *)
FourStates ==
    {"GREEN LIGHT", "UNUSUAL SPIKE", "HIGH LOAD WARNING", "ADAPTIVE PACING ALERT"}

InsufficientStates == {"BASELINE NEEDED", "Baseline Needed"}

C1_InsufficientBelowSevenDays ==
    Paced =>
        /\ Len(df) < 7 => /\ recommendation.pacing_state \in InsufficientStates
                          /\ recommendation.pacing_state \notin FourStates
        /\ Len(df) >= 7 => recommendation.pacing_state \in FourStates

C1_Witness_SixDays ==
    /\ pc = "paced_analysis_logic"
    /\ Len(df) = 6
    /\ recommendation.pacing_state = "BASELINE NEEDED"

\* sum of the squared deviations from the mean, times n^2: sum (n*x - S)^2
DeviationSquares(xs) ==
    LET n == Len(xs)
        s == SeqSum(xs)
    IN  SeqSum([i \in 1..n |-> (n * xs[i] - s) * (n * xs[i] - s)])

\* how v stands to mean(xs) + sample std(xs): "above", "equal" or "below",
\* from  v - S/n  against  sqrt( sum (x - S/n)^2 / (n-1) )
AgainstMeanPlusStd(v, xs) ==
    LET n == Len(xs)
        d == n * v - SeqSum(xs)
        lhs == d * d * (n - 1)
        rhs == DeviationSquares(xs)
    IN  IF d > 0 /\ lhs > rhs THEN "above"
        ELSE IF d >= 0 /\ lhs = rhs THEN "equal"
        ELSE "below"

(* C2: with 7 or more rows the state is ADAPTIVE PACING ALERT iff both the *)
(* latest TNL and the latest tics are strictly above mean + std of the     *)
(* baseline, HIGH LOAD WARNING iff only the load is, UNUSUAL SPIKE iff     *)
(* only the tics are, GREEN LIGHT iff neither is; a latest value equal to  *)
(* its threshold is not a spike.                                           *)
C2_DecisionMatrix ==
    (Paced /\ Len(df) >= 7) =>
        LET latest == df[Len(df)]
            load == AgainstMeanPlusStd(latest.TNL, Column(baseline_df, "TNL"))
            tics == AgainstMeanPlusStd(latest.tics, Column(baseline_df, "tics"))
            load_spiking == load = "above"
            tics_spiking == tics = "above"
            state == recommendation.pacing_state
        IN  /\ (state = "ADAPTIVE PACING ALERT") <=> (load_spiking /\ tics_spiking)
            /\ (state = "HIGH LOAD WARNING") <=> (load_spiking /\ ~tics_spiking)
            /\ (state = "UNUSUAL SPIKE") <=> (~load_spiking /\ tics_spiking)
            /\ (state = "GREEN LIGHT") <=> (~load_spiking /\ ~tics_spiking)
            /\ load = "equal" => state \in {"UNUSUAL SPIKE", "GREEN LIGHT"}
            /\ tics = "equal" => state \in {"HIGH LOAD WARNING", "GREEN LIGHT"}

\* the latest load sits exactly on its threshold while the tics spike
C2_Witness_LoadAtThreshold ==
    /\ Paced
    /\ Len(df) = 8
    /\ df[8].TNL = 1
    /\ AgainstMeanPlusStd(df[8].TNL, Column(baseline_df, "TNL")) = "equal"
    /\ recommendation.pacing_state = "UNUSUAL SPIKE"

(* C3: the result holds a numeric latest_load and a numeric load_threshold *)
(* in every state, the insufficient-data state included.                   *)
C3_LoadFieldsInEveryState ==
    Paced => {"latest_load", "load_threshold"} \subseteq DOMAIN recommendation

(* C4: the baseline window is the 7 rows right before the last row when    *)
(* the table has 8 or more rows, and all rows but the last when it has 7;  *)
(* the last row and any row older than the 7 preceding ones are not in it. *)
C4_BaselineWindow ==
    (Paced /\ Len(df) >= 7) =>
        LET n == Len(df)
            k == IF n >= 8 THEN 7 ELSE n - 1
        IN  /\ Len(baseline_df) = k
            /\ \A i \in 1..k : baseline_df[i] = df[n - k - 1 + i]
            /\ \A i \in 1..k : /\ baseline_df[i].date # df[n].date
                               /\ baseline_df[i].date >= df[n].date - 7
                               /\ baseline_df[i].date < df[n].date

\* nine days: the first one is too old for the window
C4_Witness_NineDays ==
    /\ Paced
    /\ Len(df) = 9
    /\ Len(baseline_df) = 7
    /\ baseline_df[1].date = 2
    /\ baseline_df[7].date = 8

----------------------------------------------------------------------------
(* Claims about determine_sleep_vulnerability and calculate_daily_metrics *)

\* the positions of the days determine_sleep_vulnerability analyses: all
\* but the last one, or the only one
AnalysedDays(n) == IF n > 1 THEN 1..(n - 1) ELSE 1..n

(* C5: the verdict is VULNERABLE iff the analysed days hold at least 3     *)
(* low-sleep days (sleep <= 6.0 h) and at least 70% of these have a        *)
(* symptom count >= 5; with 0, 1 or 2 low-sleep days it is NOT-VULNERABLE, *)
(* with 3 low-sleep days that all have >= 5 symptoms it is VULNERABLE.     *)
C5_VulnerableIffSeventyPercent ==
    pc = "verdict" =>
        LET low == {i \in AnalysedDays(Len(df)) : df[i].sleep_hours <= 12}
            high == {i \in low : df[i].tics >= 5}
        IN  /\ is_vulnerable <=>
                  (Cardinality(low) >= 3 /\ 10 * Cardinality(high) >= 7 * Cardinality(low))
            /\ Cardinality(low) <= 2 => ~is_vulnerable
            /\ (Cardinality(low) = 3 /\ high = low) => is_vulnerable

\* ten low-sleep days, exactly seven of them with many tics
C5_Witness_ExactlySeventyPercent ==
    /\ pc = "verdict"
    /\ Len(df) = 11
    /\ \A i \in 1..10 : df[i].sleep_hours = 12
    /\ Cardinality({i \in 1..10 : df[i].tics >= 5}) = 7
    /\ is_vulnerable

\* the verdict the analyser gives on the days of the batch at positions S
VerdictOn(S) ==
    LET sleep(i) == IF data[i].sleep_hours = <<>> THEN 16 ELSE data[i].sleep_hours[1]
        tics(i) == IF data[i].tic_count = <<>> THEN 0 ELSE data[i].tic_count[1]
        low == {i \in S : sleep(i) <= 12}
        high == {i \in low : tics(i) >= 5}
    IN  Cardinality(low) >= 3 /\ 10 * Cardinality(high) >= 7 * Cardinality(low)

\* the positions of the records that carry the latest date of the batch
LatestDated == {i \in 1..Len(data) : \A j \in 1..Len(data) : data[j].date <= data[i].date}

\* the date is a unique key of the batch
DistinctDates == \A i, j \in 1..Len(data) : data[i].date = data[j].date => i = j

(* C6: for a batch of more than one day, in any record order, the verdict  *)
(* calculate_daily_metrics uses is computed from all days except the day   *)
(* with the latest date (the day the spike detector evaluates); for a      *)
(* batch of one day it is computed from that day.                          *)
C6_VerdictExcludesLatestDay ==
    pc = "metrics_analysis_logic" =>
        /\ (Len(data) > 1 /\ DistinctDates)
              => is_vulnerable = VerdictOn((1..Len(data)) \ LatestDated)
        /\ Len(data) = 1 => is_vulnerable = VerdictOn({1})

(* C7: the sleep penalty is uniform over the batch: with the verdict       *)
(* NOT-VULNERABLE sleep_penalty_contrib is 0 on every day, nights under 8  *)
(* hours included; with the verdict VULNERABLE it is                       *)
(* max(0, 8.0 - sleep_hours) * 1.5 on every day, the last one included.    *)
C7_UniformSleepPenalty ==
    pc = "metrics_analysis_logic" =>
        \A i \in 1..Len(df) :
            LET entry == data[df[i].src]
                sleep == IF entry.sleep_hours = <<>> THEN 16 ELSE entry.sleep_hours[1]
                deficit == IF sleep < 16 THEN 16 - sleep ELSE 0
            IN  /\ ~is_vulnerable => df[i].sleep_penalty_contrib = 0
                \* half hours of deficit * 1.5 / 2, in units of 1/Scale
                /\ is_vulnerable => 4 * df[i].sleep_penalty_contrib = deficit * 3 * Scale

\* a vulnerable batch whose last submitted day, a night of 6.5 hours that
\* is not a low-sleep day, is penalised
C7_Witness_VulnerableLastDay ==
    /\ pc = "metrics_analysis_logic"
    /\ is_vulnerable
    /\ data[Len(data)].sleep_hours = <<13>>
    /\ \E i \in 1..Len(df) : /\ df[i].src = Len(data)
                             /\ df[i].sleep_penalty_contrib > 0

MetricsDone == pc \in {"metrics_analysis_logic", "metrics_app"}

IsProtective(factor) == factor.level * factor.effect < 0
IsNotProtective(factor) == ~IsProtective(factor)

\* two records that differ at most in their date and protective factors
SameButProtection(a, b) ==
    /\ a.sleep_hours = b.sleep_hours
    /\ a.stress = b.stress
    /\ a.study_minutes = b.study_minutes
    /\ a.tic_count = b.tic_count
    /\ SelectSeq(a.custom, IsNotProtective) = SelectSeq(b.custom, IsNotProtective)

(* C8: on every row of the per-day table TNL is the sum of the row's load  *)
(* columns (stress, study, positive custom, and the sleep penalty where    *)
(* the table has it); the negative custom impact is in the table but not   *)
(* in the sum, so a protective factor more or less leaves TNL unchanged.   *)
C8_TnlIsSumOfLoadColumns ==
    MetricsDone =>
        /\ \A i \in 1..Len(df) :
              /\ df[i].TNL = df[i].stress_contrib + df[i].study_contrib
                               + df[i].pos_custom_contrib
                               + (IF "sleep_penalty_contrib" \in DOMAIN df[i]
                                  THEN df[i].sleep_penalty_contrib ELSE 0)
              /\ "raw_neg_impact" \in DOMAIN df[i]
        /\ \A i, j \in 1..Len(df) :
              SameButProtection(data[df[i].src], data[df[j].src])
                  => df[i].TNL = df[j].TNL

\* two days alike but for the protective factor, in a vulnerable batch
C8_Witness_ProtectedAndUnprotected ==
    /\ pc = "metrics_analysis_logic"
    /\ is_vulnerable
    /\ \E i, j \in 1..Len(df) :
          /\ SameButProtection(data[df[i].src], data[df[j].src])
          /\ df[i].raw_neg_impact < 0
          /\ df[j].raw_neg_impact = 0
          /\ df[i].sleep_penalty_contrib > 0
          /\ df[i].TNL = df[j].TNL

ValidLoads(entry) ==
    /\ entry.stress = <<>> \/ entry.stress[1] >= 0
    /\ entry.study_minutes = <<>> \/ entry.study_minutes[1] >= 0

(* C9: when every record of the batch has a non-negative stress and a      *)
(* non-negative study time, every day's TNL is >= 0, whatever the custom   *)
(* factors and the verdict.                                                *)
C9_TnlNonNegative ==
    (MetricsDone /\ \A k \in 1..Len(data) : ValidLoads(data[k]))
        => \A i \in 1..Len(df) : df[i].TNL >= 0

\* a valid vulnerable batch with a protective factor stronger than the load
C9_Witness_ValidBatch ==
    /\ pc = "metrics_analysis_logic"
    /\ Len(data) = 4
    /\ \A k \in 1..Len(data) : ValidLoads(data[k])
    /\ is_vulnerable
    /\ \E i \in 1..Len(df) : df[i].TNL + df[i].raw_neg_impact < 0

(* C10 as claimed: whatever the raw stress and study time, negative ones   *)
(* included, the four contributions summed into TNL are >= 0.              *)
C10_ContributionsClamped ==
    pc = "metrics_analysis_logic" =>
        \A i \in 1..Len(df) :
            /\ df[i].stress_contrib >= 0
            /\ df[i].study_contrib >= 0
            /\ df[i].pos_custom_contrib >= 0
            /\ df[i].sleep_penalty_contrib >= 0

(* C10 amended: pos_custom_contrib and sleep_penalty_contrib are >= 0 for  *)
(* every record; stress_contrib and study_contrib are not clamped below:   *)
(* stress_contrib is the stress as given and study_contrib is              *)
(* min(study_minutes, 900) / 900 * 10, so each is >= 0 exactly when the    *)
(* raw value is >= 0.                                                      *)
C10_ContributionsNonNegativeForValidInput ==
    pc = "metrics_analysis_logic" =>
        \A i \in 1..Len(df) :
            LET entry == data[df[i].src]
                stress == IF entry.stress = <<>> THEN 0 ELSE entry.stress[1]
                study == IF entry.study_minutes = <<>> THEN 0 ELSE entry.study_minutes[1]
            IN  /\ df[i].pos_custom_contrib >= 0
                /\ df[i].sleep_penalty_contrib >= 0
                /\ df[i].stress_contrib = stress * Scale
                /\ (df[i].stress_contrib >= 0) <=> (stress >= 0)
                /\ (df[i].study_contrib >= 0) <=> (study >= 0)

\* one day with a negative stress, another with a negative study time
C10_Witness_NegativeContributions ==
    /\ pc = "metrics_analysis_logic"
    /\ \E i, j \in 1..Len(df) : /\ df[i].stress_contrib < 0
                                /\ df[j].study_contrib < 0
                                /\ df[j].pos_custom_contrib > 0

----------------------------------------------------------------------------
(* analyze_protective_factors (app.py).  The function reads its fields     *)
(* with entry.get(key, 0): a missing key is 0 and a null stays None.  In   *)
(* its result Python's None is <<>> and a value v that may be None is      *)
(* <<v>>.                                                                  *)

Abs(a) == IF a < 0 THEN -a ELSE a

\* statistics.mean of a non-empty list: the exact fraction sum/n
Mean(xs) == [num |-> SeqSum(xs), den |-> Len(xs)]

\* round(): the integers a rounding of num/den (den > 0) may give.  Python
\* rounds the double that the division left, which at an exact tie lies on
\* either side of it: both neighbours then, the nearest integer otherwise.
Rounded(num, den) ==
    LET q == num \div den
        r == num % den
    IN  IF 2 * r < den THEN {q}
        ELSE IF 2 * r > den THEN {q + 1}
        ELSE {q, q + 1}

\* min(study, 900) / 900 * 10 computed inline, in units of 1/Scale
NormalizedStudyInline(study) ==
    (Min(study, STUDY_MINUTES_MAX) * 10 * Scale) \div STUDY_MINUTES_MAX

\* impact = level * effect
ImpactInline(factor) == factor.level * factor.effect

\* if impact < 0:  # Protective factor!
IsProtectiveUse(factor) == ImpactInline(factor) < 0

\* protective_factors_today
ProtectiveFactorsToday(custom) ==
    LET used == SelectSeq(custom, IsProtectiveUse)
    IN  [k \in 1..Len(used) |->
            [name |-> used[k].name,
             impact |-> Abs(ImpactInline(used[k])),
             level |-> used[k].level]]

\* one daily_info entry; tnl in units of 1/Scale, src is the position of
\* the record in the batch
DayInfo(entry, i) ==
    LET stress == Get(entry.stress, 0)[1]
        study == Get(entry.study_minutes, 0)[1]
        tic_count == Get(entry.tic_count, 0)
        impacts == [k \in 1..Len(entry.custom) |-> ImpactInline(entry.custom[k])]
    IN  [src |-> i,
         date |-> entry.date,
         tnl |-> stress * Scale + NormalizedStudyInline(study)
                    + PosImpact(impacts) * Scale,
         tics |-> IF tic_count = Null THEN Null ELSE tic_count[1],
         stress |-> stress,
         study_minutes |-> study,
         protective_factors |-> ProtectiveFactorsToday(entry.custom),
         total_protection |-> Abs(NegImpact(impacts))]

DailyInfo(batch) == [i \in 1..Len(batch) |-> DayInfo(batch[i], i)]

\* the protective usages of the days from..Len(daily_info), in the order the
\* loop meets them: one [name, date, tics, impact] per usage
RECURSIVE Usages(_, _)
Usages(daily_info, from) ==
    IF from > Len(daily_info) THEN <<>>
    ELSE LET d == daily_info[from]
         IN  [k \in 1..Len(d.protective_factors) |->
                 [name |-> d.protective_factors[k].name,
                  date |-> d.date,
                  tics |-> d.tics,
                  impact |-> d.protective_factors[k].impact]]
             \o Usages(daily_info, from + 1)

\* the keys of factor_data in insertion order: each name at its first usage
RECURSIVE FactorNames(_)
FactorNames(usages) ==
    IF usages = <<>> THEN <<>>
    ELSE LET before == FactorNames(SubSeq(usages, 1, Len(usages) - 1))
             name == usages[Len(usages)].name
         IN  IF \E k \in 1..Len(before) : before[k] = name
             THEN before
             ELSE Append(before, name)

\* factor_data[name]
FactorData(usages, name) ==
    LET mine == SelectSeq(usages, LAMBDA u : u.name = name)
    IN  [days_used |-> [k \in 1..Len(mine) |-> mine[k].date],
         tic_counts |-> [k \in 1..Len(mine) |-> mine[k].tics],
         total_impact |-> SeqSum([k \in 1..Len(mine) |-> mine[k].impact]),
         usage_count |-> Len(mine)]

\* ((avg_tics_without - avg_tics_with) / avg_tics_without) * 100 as a
\* fraction, 0 unless avg_tics_without > 0; the averages are fractions
TicReductionPct(avg_tics_with, avg_tics_without) ==
    IF avg_tics_without.num > 0
    THEN [num |-> (avg_tics_without.num * avg_tics_with.den
                      - avg_tics_with.num * avg_tics_without.den) * 100,
          den |-> avg_tics_without.num * avg_tics_with.den]
    ELSE [num |-> 0, den |-> 1]

\* the tic counts of the days whose date is not in days_used
DaysWithoutFactorTics(daily_info, days_used) ==
    LET without == SelectSeq(daily_info,
                        LAMBDA d : \A k \in 1..Len(days_used) : days_used[k] # d.date)
    IN  [k \in 1..Len(without) |-> without[k].tics]

\* a bug: a factor used on every day compared with an average of 0
AvgTicsWithout_NoneIsZero(days_without_factor_tics, avg_tics_with) ==
    IF days_without_factor_tics # <<>>
    THEN Mean(days_without_factor_tics)
    ELSE [num |-> 0, den |-> 1]

\* avg_tics_without: the mean of the other days, avg_tics_with if none
AvgTicsWithout(days_without_factor_tics, avg_tics_with) ==
    IF days_without_factor_tics # <<>>
    THEN Mean(days_without_factor_tics)
    ELSE avg_tics_with

\* the factor_analysis entries a factor may get: avg_impact in hundredths,
\* the averages and tic_reduction_pct in tenths (round(x, 2), round(x, 1))
FactorAnalysisEntries(daily_info, usages, factor_name) ==
    LET factor_info == FactorData(usages, factor_name)
        days_without_factor_tics ==
            DaysWithoutFactorTics(daily_info, factor_info.days_used)
        avg_tics_with == Mean(factor_info.tic_counts)
        avg_tics_without == AvgTicsWithout(days_without_factor_tics, avg_tics_with)
        tic_reduction_pct == TicReductionPct(avg_tics_with, avg_tics_without)
    IN  {[name |-> factor_name,
          avg_impact |-> impact,
          times_used |-> factor_info.usage_count,
          avg_tics_with |-> with,
          avg_tics_without |-> without,
          tic_reduction_pct |-> pct] :
            impact \in Rounded(100 * factor_info.total_impact, factor_info.usage_count),
            with \in Rounded(10 * avg_tics_with.num, avg_tics_with.den),
            without \in Rounded(10 * avg_tics_without.num, avg_tics_without.den),
            pct \in Rounded(10 * tic_reduction_pct.num, tic_reduction_pct.den)}

\* the factor_analysis lists the loop over factor_data may build for the
\* factors from..Len(names), in the order of the keys
RECURSIVE FactorAnalyses(_, _, _, _)
FactorAnalyses(daily_info, usages, names, from) ==
    IF from > Len(names) THEN {<<>>}
    ELSE {<<entry>> \o rest :
            entry \in FactorAnalysisEntries(daily_info, usages, names[from]),
            rest \in FactorAnalyses(daily_info, usages, names, from + 1)}

\* a bug: the sort without reverse=True, the least reduction first
SortByReduction_Ascending(factor_analysis) ==
    LET n == Len(factor_analysis)
        Before(j, i) ==
            \/ factor_analysis[j].tic_reduction_pct < factor_analysis[i].tic_reduction_pct
            \/ /\ factor_analysis[j].tic_reduction_pct = factor_analysis[i].tic_reduction_pct
               /\ j < i
        Rank(i) == Cardinality({j \in 1..n : Before(j, i)}) + 1
    IN  [k \in 1..n |-> factor_analysis[CHOOSE i \in 1..n : Rank(i) = k]]

\* factor_analysis.sort(key=tic_reduction_pct, reverse=True): descending,
\* and stable, so equal reductions keep their order
SortByReduction(factor_analysis) ==
    LET n == Len(factor_analysis)
        Before(j, i) ==
            \/ factor_analysis[j].tic_reduction_pct > factor_analysis[i].tic_reduction_pct
            \/ /\ factor_analysis[j].tic_reduction_pct = factor_analysis[i].tic_reduction_pct
               /\ j < i
        Rank(i) == Cardinality({j \in 1..n : Before(j, i)}) + 1
    IN  [k \in 1..n |-> factor_analysis[CHOOSE i \in 1..n : Rank(i) = k]]

\* sorted(daily_info, key=tnl): ascending and stable
SortByTnl(daily_info) ==
    LET n == Len(daily_info)
        Before(j, i) ==
            \/ daily_info[j].tnl < daily_info[i].tnl
            \/ daily_info[j].tnl = daily_info[i].tnl /\ j < i
        Rank(i) == Cardinality({j \in 1..n : Before(j, i)}) + 1
    IN  [k \in 1..n |-> daily_info[CHOOSE i \in 1..n : Rank(i) = k]]

\* a bug: the last of the days of minimal tnl taken for the lowest
MinByTnl_Last(daily_info) ==
    daily_info[CHOOSE i \in 1..Len(daily_info) :
                  /\ \A j \in 1..Len(daily_info) : daily_info[i].tnl <= daily_info[j].tnl
                  /\ \A j \in (i + 1)..Len(daily_info) : daily_info[j].tnl # daily_info[i].tnl]

\* min(daily_info, key=tnl): the first of the days of minimal tnl
MinByTnl(daily_info) ==
    daily_info[CHOOSE i \in 1..Len(daily_info) :
                  /\ \A j \in 1..Len(daily_info) : daily_info[i].tnl <= daily_info[j].tnl
                  /\ \A j \in 1..(i - 1) : daily_info[j].tnl # daily_info[i].tnl]

TOP_FACTORS == 5
TOP_DAYS == 3

\* a Python slice s[:n]
Take(s, n) == SubSeq(s, 1, Min(n, Len(s)))

\* the dictionary analyze_protective_factors returns for a factor_analysis
\* list already sorted
ProtectiveFactorResult(daily_info, factor_analysis) ==
    [best_protective_factor |->
         IF factor_analysis # <<>> THEN <<factor_analysis[1]>> ELSE <<>>,
     all_protective_factors |-> Take(factor_analysis, TOP_FACTORS),
     lowest_tnl_day |->
         IF daily_info # <<>> THEN <<MinByTnl(daily_info)>> ELSE <<>>,
     top_3_best_days |->
         IF daily_info # <<>> THEN Take(SortByTnl(daily_info), TOP_DAYS) ELSE <<>>,
     total_days_analyzed |-> Len(daily_info)]

\* the function raises a TypeError: min(study, 900) or stress + ... on a
\* null, or the mean of tic counts one of which is a null (the tic count of
\* a day enters the averages of a factor used that day, and of a factor
\* none of whose usages has the date of the day)
RankerRaises(batch) ==
    \/ \E k \in 1..Len(batch) : batch[k].study_minutes = Null \/ batch[k].stress = Null
    \/ \E k, u \in 1..Len(batch) :
           /\ batch[k].tic_count = Null
           /\ \E i \in 1..Len(batch[u].custom) :
                  /\ IsProtectiveUse(batch[u].custom[i])
                  /\ \/ u = k
                     \/ \A v \in 1..Len(batch) :
                            batch[v].date = batch[k].date =>
                                \A j \in 1..Len(batch[v].custom) :
                                    \/ ~IsProtectiveUse(batch[v].custom[j])
                                    \/ batch[v].custom[j].name # batch[u].custom[i].name

\* the dictionaries analyze_protective_factors may return, or the exception
\* it is left by
ProtectiveFactorAnalysis(batch) ==
    IF RankerRaises(batch) THEN {Raises("TypeError")}
    ELSE LET daily_info == DailyInfo(batch)
             usages == Usages(daily_info, 1)
             names == FactorNames(usages)
         IN  {ProtectiveFactorResult(daily_info, SortByReduction(factor_analysis)) :
                 factor_analysis \in FactorAnalyses(daily_info, usages, names, 1)}

\* POST /api/protective-factors with the batch, whether or not the per-day
\* table was asked for before
AnalyzeProtectiveFactors ==
    /\ pc \in {"batch", "metrics_analysis_logic", "metrics_app"}
    /\ analysis' \in ProtectiveFactorAnalysis(data)
    /\ pc' = IF "raises" \in DOMAIN analysis' THEN "raised" ELSE "protective_factors"
    /\ UNCHANGED <<data, df, is_vulnerable, baseline_df, recommendation,
                   x_values, y_values, calls>>

----------------------------------------------------------------------------
(* Specification of the study-load normalisation: batches of valid records *)
(* that vary the study time, given to calculate_daily_metrics (either      *)
(* service) and to analyze_protective_factors.                             *)

\* study_minutes: absent, none, half the cap, around the cap, twice the cap
StudyTimes == {<<>>, <<0>>, <<450>>, <<899>>, <<900>>, <<901>>, <<1800>>}

\* a day of a given study time, in ascending date order, with no custom factor
SubmitStudyDay ==
    \E study \in StudyTimes :
        Submit(Entry(Len(data) + 1, <<16>>, <<1>>, study, <<0>>, <<>>))

NextStudy ==
    \/ SubmitStudyDay
    \/ CalculateDailyMetricsAnalysisLogic
    \/ CalculateDailyMetricsApp
    \/ AnalyzeProtectiveFactors

SpecStudy == InitBatch /\ [][NextStudy]_vars

\* the study time a record stands for: 0 when the field is absent
StudyMinutesOf(entry) ==
    IF entry.study_minutes = <<>> THEN 0 ELSE entry.study_minutes[1]

\* v is x/900*10 in units of 1/Scale
IsTenthOfCap(v, x) == v * STUDY_MINUTES_MAX = x * 10 * Scale

----------------------------------------------------------------------------
(* Specification of unlogged nights: batches in which the sleep of a day   *)
(* may be absent (or not a number), given to analysis_logic.py.            *)

\* <<sleep_hours field, tics>>: a short night with many tics, a short night
\* with few, an unlogged night with many tics, a night of 7 hours
LoggedOrNot == {<< <<12>>, 5 >>, << <<12>>, 4 >>, << <<>>, 5 >>, << <<14>>, 5 >>}

SubmitLoggedOrNot ==
    \E st \in LoggedOrNot :
        Submit(Entry(Len(data) + 1, st[1], <<1>>, <<90>>, <<st[2]>>, <<>>))

NextUnlogged == SubmitLoggedOrNot \/ CalculateDailyMetricsAnalysisLogic

SpecUnlogged == InitBatch /\ [][NextUnlogged]_vars

IsUnlogged(entry) == entry.sleep_hours = <<>>

\* the positions of the batch the verdict looks at: all but the last one
HistoricalPositions ==
    IF Len(data) > 1 THEN 1..(Len(data) - 1) ELSE 1..Len(data)

\* the historical days with a logged sleep of at most 6 hours
LoggedLowSleepDays ==
    {k \in HistoricalPositions :
        /\ ~IsUnlogged(data[k])
        /\ data[k].sleep_hours[1] <= 2 * LOW_SLEEP}

(* C12: a day whose sleep_hours is absent or not a number counts as a      *)
(* night of 8.0 hours: the verdict is the one the logged days alone give   *)
(* (at least 3 logged low-sleep days, at least 70% of them with 5 tics or  *)
(* more), so the day is never a low-sleep day, and its                     *)
(* sleep_penalty_contrib is 0 whatever the verdict.                        *)
C12_UnloggedDayIsEightHours ==
    pc = "metrics_analysis_logic" =>
        LET low == LoggedLowSleepDays
            high == {k \in low : data[k].tic_count[1] >= HIGH_TICS}
        IN  /\ is_vulnerable <=>
                  /\ Cardinality(low) >= 3
                  /\ 10 * Cardinality(high) >= 7 * Cardinality(low)
            /\ \A i \in 1..Len(df) :
                  IsUnlogged(data[df[i].src]) => df[i].sleep_penalty_contrib = 0

\* a vulnerable batch: a logged short night is penalised, an unlogged
\* night with many tics is not
C12_Witness_UnloggedInVulnerableBatch ==
    /\ pc = "metrics_analysis_logic"
    /\ is_vulnerable
    /\ \E i, j \in 1..Len(df) :
          /\ IsUnlogged(data[df[i].src])
          /\ data[df[i].src].tic_count = <<5>>
          /\ df[i].sleep_penalty_contrib = 0
          /\ df[j].sleep_penalty_contrib > 0

----------------------------------------------------------------------------
(* calculate_pearson_correlation (app.py).  The function either returns a  *)
(* number, [returns |-> hundredths], or raises, [raises |-> exception].    *)

Returns(value) == [returns |-> value]

\* the order of the fractions a/b and c/d (a, c >= 0 and b, d > 0): -1, 0 or
\* 1 as a/b is less than, equal to or greater than c/d.  Integer parts first,
\* then the remainders' reciprocals, so that no product is formed.
RECURSIVE CompareFractions(_, _, _, _)
CompareFractions(a, b, c, d) ==
    IF a \div b < c \div d THEN -1
    ELSE IF a \div b > c \div d THEN 1
    ELSE IF a % b = 0 /\ c % d = 0 THEN 0
    ELSE IF a % b = 0 THEN -1
    ELSE IF c % d = 0 THEN 1
    ELSE CompareFractions(d, c % d, b, a % b)

\* whether |r| * 100 <= m + 1/2 for r^2 = num/den
RoundsWithin(num, den, m) ==
    CompareFractions(num, den, (2 * m + 1) * (2 * m + 1), 40000) <= 0

\* some m with |r| * 100 <= m + 1/2: 0, 1, 3, 7, ...
RECURSIVE RoundedRootBound(_, _, _)
RoundedRootBound(num, den, m) ==
    IF RoundsWithin(num, den, m) THEN m ELSE RoundedRootBound(num, den, 2 * m + 1)

\* the least m of lo..hi with |r| * 100 <= m + 1/2
RECURSIVE RoundedRootIn(_, _, _, _)
RoundedRootIn(num, den, lo, hi) ==
    IF lo = hi THEN lo
    ELSE IF RoundsWithin(num, den, (lo + hi) \div 2)
         THEN RoundedRootIn(num, den, lo, (lo + hi) \div 2)
         ELSE RoundedRootIn(num, den, (lo + hi) \div 2 + 1, hi)

\* what round(|r| * 100) may be for r^2 = num/den: the nearest integer, and
\* both neighbours at an exact tie
RoundedRoot(num, den) ==
    LET m == RoundedRootIn(num, den, 0, RoundedRootBound(num, den, 0))
    IN  IF CompareFractions(num, den, (2 * m + 1) * (2 * m + 1), 40000) = 0
        THEN {m, m + 1}
        ELSE {m}

\* what round(c / sqrt(d2), 2) may be, in hundredths, for d2 > 0
RoundedRatio(c, d2) ==
    {IF c < 0 THEN -m ELSE m : m \in RoundedRoot(c * c, d2)}

\* a bug: the covariance divided by the variance of x (a regression slope)
Correlation_OverVarianceOfX(covariance, sq_x, sq_y) ==
    IF sq_x * sq_x = 0
    THEN {Raises("ZeroDivisionError")}
    ELSE {Returns(r) : r \in RoundedRatio(covariance, sq_x * sq_x)}

\* round(covariance / (std_x * std_y), 2) with std = sqrt(sq)
Correlation(covariance, sq_x, sq_y) ==
    IF sq_x * sq_y = 0
    THEN {Raises("ZeroDivisionError")}
    ELSE {Returns(r) : r \in RoundedRatio(covariance, sq_x * sq_y)}

\* a bug: only std_x tested before the division
StdIsZero_OnlyX(sq_x, sq_y) == sq_x = 0

\* if std_x == 0 or std_y == 0
StdIsZero(sq_x, sq_y) == sq_x = 0 \/ sq_y = 0

\* What the function may do.  The means are sum/len, so every deviation is
\* taken times the length of its list: dx[i] = n*(x[i] - mean_x) and
\* dy[j] = len(y)*(y[j] - mean_y); the factors cancel in
\* covariance / (std_x * std_y).  The covariance runs over range(len(x)), the
\* two standard deviations each over their whole list.
CalculatePearsonCorrelation(xs, ys) ==
    IF Len(xs) < 2 \/ Len(ys) < 2 THEN {Returns(0)}
    ELSE IF Len(ys) < Len(xs) THEN {Raises("IndexError")}
    ELSE LET n == Len(xs)
             dx == [i \in 1..n |-> n * xs[i] - SeqSum(xs)]
             dy == [j \in 1..Len(ys) |-> Len(ys) * ys[j] - SeqSum(ys)]
             covariance == SeqSum([i \in 1..n |-> dx[i] * dy[i]])
             sq_x == SeqSum([i \in 1..n |-> dx[i] * dx[i]])
             sq_y == SeqSum([j \in 1..Len(ys) |-> dy[j] * dy[j]])
         IN  IF StdIsZero(sq_x, sq_y) THEN {Returns(0)}
             ELSE Correlation(covariance, sq_x, sq_y)

----------------------------------------------------------------------------
(* calculate_sleep_analysis (app.py).  sleep_hours is in half hours; a     *)
(* value rounded to one decimal (avg_sleep, optimal_sleep, the bucket      *)
(* averages) is kept in tenths.                                            *)

MIN_DAYS_TRACKED == 7
RECENT_DAYS == 14
MIN_NIGHTS_LOGGED == 5

\* tolerance = 0.75, as the fraction 3/4
SLEEP_TOLERANCE == [num |-> 3, den |-> 4]

\* recent_data = data[-14:] if len(data) >= 14 else data
RecentData(batch) ==
    IF Len(batch) >= RECENT_DAYS THEN Iloc(batch, -RECENT_DAYS, Len(batch)) ELSE batch

\* the zip of sleep_hours and tic_counts: one pair per logged night (sleep > 0,
\* an absent sleep_hours being 0), in the order of recent_data; src is the
\* position of the night in recent_data
LoggedNights(recent_data) ==
    LET at == [k \in 1..Len(recent_data) |->
                  [src |-> k,
                   sleep |-> Get(recent_data[k].sleep_hours, 0)[1],
                   tics |-> Get(recent_data[k].tic_count, 0)[1]]]
    IN  SelectSeq(at, LAMBDA night : night.sleep > 0)

\* a bug: the pairs left in the order of the batch
SortByTics_Unsorted(nights) == nights

\* sorted(zip(tic_counts, sleep_hours), key=lambda x: x[0]): ascending by
\* tic count and stable
SortByTics(nights) ==
    LET n == Len(nights)
        Before(j, i) ==
            \/ nights[j].tics < nights[i].tics
            \/ nights[j].tics = nights[i].tics /\ j < i
        Rank(i) == Cardinality({j \in 1..n : Before(j, i)}) + 1
    IN  [k \in 1..n |-> nights[CHOOSE i \in 1..n : Rank(i) = k]]

\* round(mean of the nights' sleep, 1) in tenths of an hour, for a non-empty
\* list: 10 * (sum of half hours / 2) / n
RoundedSleep(nights) ==
    Rounded(5 * SeqSum([k \in 1..Len(nights) |-> nights[k].sleep]), Len(nights))

\* round(mean(tics), 1) in tenths if the bucket is not empty else None
RoundedTics(bucket) ==
    IF bucket # <<>>
    THEN {<<avg>> : avg \in
            Rounded(10 * SeqSum([k \in 1..Len(bucket) |-> bucket[k].tics]), Len(bucket))}
    ELSE {<<>>}

\* 2 * abs(s - optimal_sleep) in tenths of an hour
TwiceOffOptimal(night, optimal_sleep) == 2 * Abs(5 * night.sleep - optimal_sleep)

\* abs(s - optimal_sleep) <= tolerance
IsGoodSleep(night, optimal_sleep) ==
    TwiceOffOptimal(night, optimal_sleep) * SLEEP_TOLERANCE.den
        <= 20 * SLEEP_TOLERANCE.num

\* abs(s - optimal_sleep) > tolerance * 2
IsBadSleep(night, optimal_sleep) ==
    TwiceOffOptimal(night, optimal_sleep) * SLEEP_TOLERANCE.den
        > 2 * 20 * SLEEP_TOLERANCE.num

\* percent_diff: "if avg_good_sleep_tics and avg_bad_sleep_tics and
\* avg_good_sleep_tics > 0" is false for None and for an average of 0.0
PercentDifference(avg_good_sleep_tics, avg_bad_sleep_tics) ==
    IF /\ avg_good_sleep_tics # <<>> /\ avg_good_sleep_tics[1] # 0
       /\ avg_bad_sleep_tics # <<>> /\ avg_bad_sleep_tics[1] # 0
       /\ avg_good_sleep_tics[1] > 0
    THEN {<<pct>> : pct \in
            Rounded(100 * (avg_bad_sleep_tics[1] - avg_good_sleep_tics[1]),
                    avg_good_sleep_tics[1])}
    ELSE {<<>>}

\* generate_sleep_insight: the three sentences of the message, each by the
\* tier it is chosen from
SleepStatus(avg_sleep) ==
    IF avg_sleep < 60 THEN "below the recommended range"
    ELSE IF avg_sleep < 70 THEN "close to the recommended range"
    ELSE IF avg_sleep <= 90 THEN "in the healthy range"
    ELSE "more than the recommendation"

CorrelationText(correlation) ==
    IF correlation <= -70 THEN "VERY STRONG"
    ELSE IF correlation <= -50 THEN "STRONG"
    ELSE IF correlation <= -30 THEN "MODERATE"
    ELSE IF correlation <= -10 THEN "WEAK"
    ELSE IF correlation < 10 THEN "VERY WEAK"
    ELSE "POSITIVE"

Comparison(percent_diff, good_tics, bad_tics) ==
    IF good_tics # <<>> /\ bad_tics # <<>> /\ percent_diff # <<>>
    THEN IF percent_diff[1] > 0 THEN "tics rise off the sweet spot"
         ELSE IF percent_diff[1] < 0 THEN "fewer tics off the sweet spot"
         ELSE "similar tic levels"
    ELSE "track a few more days"

GenerateSleepInsight(avg_sleep, correlation, percent_diff, good_tics, bad_tics) ==
    <<SleepStatus(avg_sleep), CorrelationText(correlation),
      Comparison(percent_diff, good_tics, bad_tics)>>

NotEnoughData(error) == [error |-> error, avg_sleep |-> <<>>, correlation |-> <<>>]

\* the success dictionary
SleepResult(avg_sleep, correlation, optimal_sleep, good_tics, bad_tics, percent_diff, days_analyzed) ==
    [avg_sleep_hours |-> avg_sleep,
     correlation_coefficient |-> correlation,
     optimal_sleep_hours |-> optimal_sleep,
     avg_tics_good_sleep |-> good_tics,
     avg_tics_bad_sleep |-> bad_tics,
     percent_difference |-> percent_diff,
     insight_message |->
         GenerateSleepInsight(avg_sleep, correlation, percent_diff, good_tics, bad_tics),
     days_analyzed |-> days_analyzed,
     success |-> TRUE]

\* the buckets around optimal_sleep and what is computed from them
BucketStatistics(nights, avg_sleep, correlation, optimal_sleep) ==
    LET good == SelectSeq(nights, LAMBDA night : IsGoodSleep(night, optimal_sleep))
        bad == SelectSeq(nights, LAMBDA night : IsBadSleep(night, optimal_sleep))
    IN  UNION {{SleepResult(avg_sleep, correlation, optimal_sleep, avg_good_sleep_tics,
                            avg_bad_sleep_tics, percent_diff, Len(nights)) :
                   percent_diff \in PercentDifference(avg_good_sleep_tics,
                                                      avg_bad_sleep_tics)} :
                 avg_good_sleep_tics \in RoundedTics(good),
                 avg_bad_sleep_tics \in RoundedTics(bad)}

\* paired[:len(paired)//3]: the nights of the bottom third of the tic counts
BestDaysSleep(paired) == SubSeq(paired, 1, Len(paired) \div 3)

\* paired[-(len(paired)//3):]: the nights of the top third of the tic
\* counts; the slice [-0:] of fewer than 3 nights is the whole list
WorstDaysSleep(paired) ==
    LET third == Len(paired) \div 3
    IN  IF third = 0 THEN paired
        ELSE SubSeq(paired, Len(paired) - third + 1, Len(paired))

\* round(mean(days_sleep), 1) if days_sleep else avg_sleep, in tenths
SleepOfDays(days_sleep, avg_sleep) ==
    IF days_sleep # <<>> THEN RoundedSleep(days_sleep) ELSE {avg_sleep}

\* the values worst_sleep may have; it is given to generate_sleep_insight,
\* which does not use it
WorstSleep(nights) ==
    UNION {SleepOfDays(WorstDaysSleep(SortByTics(nights)), avg_sleep) :
              avg_sleep \in RoundedSleep(nights)}

\* the statistics of the logged nights, at least 5 of them
SleepStatistics(nights) ==
    LET paired == SortByTics(nights)
        best_days == BestDaysSleep(paired)
        correlations ==
            CalculatePearsonCorrelation([k \in 1..Len(nights) |-> nights[k].sleep],
                                        [k \in 1..Len(nights) |-> nights[k].tics])
        OptimalSleep(avg_sleep) == SleepOfDays(best_days, avg_sleep)
    IN  UNION {IF "raises" \in DOMAIN correlation
               THEN {correlation}
               ELSE UNION {BucketStatistics(nights, avg_sleep, correlation.returns,
                                            optimal_sleep) :
                              optimal_sleep \in OptimalSleep(avg_sleep)} :
                 avg_sleep \in RoundedSleep(nights),
                 correlation \in correlations}

\* the loop over recent_data raises a TypeError: sleep > 0 on a null, or
\* float(tic_count) on a null in a logged night
SleepLoopRaises(recent_data) ==
    \E k \in 1..Len(recent_data) :
        \/ recent_data[k].sleep_hours = Null
        \/ /\ Get(recent_data[k].sleep_hours, 0)[1] > 0
           /\ recent_data[k].tic_count = Null

\* a bug: a batch of 5 days taken for enough, in place of 7
SleepAnalysis_FiveDays(batch) ==
    IF Len(batch) < MIN_NIGHTS_LOGGED
    THEN {NotEnoughData("Not enough data. Track for at least 7 days.")}
    ELSE IF SleepLoopRaises(RecentData(batch))
    THEN {Raises("TypeError")}
    ELSE LET nights == LoggedNights(RecentData(batch))
         IN  IF Len(nights) < MIN_NIGHTS_LOGGED
             THEN {NotEnoughData("Not enough days with sleep data logged.")}
             ELSE SleepStatistics(nights)

\* the dictionaries calculate_sleep_analysis may return, or the exception
\* it is left by
SleepAnalysis(batch) ==
    IF Len(batch) < MIN_DAYS_TRACKED
    THEN {NotEnoughData("Not enough data. Track for at least 7 days.")}
    ELSE IF SleepLoopRaises(RecentData(batch))
    THEN {Raises("TypeError")}
    ELSE LET nights == LoggedNights(RecentData(batch))
         IN  IF Len(nights) < MIN_NIGHTS_LOGGED
             THEN {NotEnoughData("Not enough days with sleep data logged.")}
             ELSE SleepStatistics(nights)

\* POST /api/sleep-analysis with the batch
CalculateSleepAnalysis ==
    /\ pc = "batch"
    /\ analysis' \in SleepAnalysis(data)
    /\ pc' = IF "raises" \in DOMAIN analysis' THEN "raised" ELSE "sleep_analysis"
    /\ UNCHANGED <<data, df, is_vulnerable, baseline_df, recommendation,
                   x_values, y_values, calls>>

----------------------------------------------------------------------------
(* Specification of the sleep log: batches of up to MaxNights days, each   *)
(* with its sleep logged or not, given to calculate_sleep_analysis.        *)

MaxNights == 15

\* the sleep_hours field: a night of 7 hours, or no entry
SleepLogged == {<<14>>, <<>>}

\* one more day in the batch, in ascending date order
LogNight ==
    /\ pc = "batch"
    /\ Len(data) < MaxNights
    /\ \E sleep \in SleepLogged :
         data' = Append(data, Entry(Len(data) + 1, sleep, <<1>>, <<90>>, <<2>>, <<>>))
    /\ UNCHANGED <<df, is_vulnerable, baseline_df, recommendation, analysis,
                   x_values, y_values, pc, calls>>

NextNights == LogNight \/ CalculateSleepAnalysis

SpecNights == InitBatch /\ [][NextNights]_vars

\* the positions of the analysed days: the last 14 of the batch
AnalysedPositions == {k \in 1..Len(data) : k > Len(data) - 14}

\* the analysed days with a sleep_hours > 0
LoggedPositions ==
    {k \in AnalysedPositions :
        /\ data[k].sleep_hours # <<>>
        /\ data[k].sleep_hours[1] > 0}

(* C13: calculate_sleep_analysis returns an error-shaped result (an error  *)
(* text, no statistics, no success flag) when the batch has fewer than 7   *)
(* days or fewer than 5 of the analysed days have sleep_hours > 0;         *)
(* otherwise it returns a success result without an error, whose           *)
(* days_analyzed is the number of logged analysed days, between 5 and 14.  *)
(* No result has both an error and a success flag.                         *)
C13_InsufficientOrSuccess ==
    pc = "sleep_analysis" =>
        /\ ~({"error", "success"} \subseteq DOMAIN analysis)
        /\ IF Len(data) < 7 \/ Cardinality(LoggedPositions) < 5
           THEN /\ DOMAIN analysis = {"error", "avg_sleep", "correlation"}
                /\ analysis.avg_sleep = <<>>
                /\ analysis.correlation = <<>>
           ELSE /\ "success" \in DOMAIN analysis
                /\ analysis.success
                /\ analysis.days_analyzed = Cardinality(LoggedPositions)
                /\ 5 <= analysis.days_analyzed
                /\ analysis.days_analyzed <= 14

\* 15 days, the first one logged and outside the 14 analysed ones, of
\* which one is not logged: 13 days analysed
C13_Witness_FifteenDays ==
    /\ pc = "sleep_analysis"
    /\ Len(data) = 15
    /\ data[1].sleep_hours = <<14>>
    /\ "success" \in DOMAIN analysis
    /\ analysis.days_analyzed = 13

----------------------------------------------------------------------------
(* Specification of calculate_pearson_correlation alone: two lists are     *)
(* built value by value and the function is applied to them.               *)

MaxPoints == 4

PointValues == {0, 1, 2}

InitPearson ==
    /\ data = <<>>
    /\ df = <<>>
    /\ is_vulnerable = FALSE
    /\ baseline_df = <<>>
    /\ recommendation = NoRecommendation
    /\ analysis = NoAnalysis
    /\ x_values = <<>>
    /\ y_values = <<>>
    /\ calls = <<>>
    /\ pc = "points"

AppendX ==
    /\ pc = "points"
    /\ Len(x_values) < MaxPoints
    /\ \E v \in PointValues : x_values' = Append(x_values, v)
    /\ UNCHANGED <<data, df, is_vulnerable, baseline_df, recommendation, analysis,
                   y_values, pc, calls>>

AppendY ==
    /\ pc = "points"
    /\ Len(y_values) < MaxPoints
    /\ \E v \in PointValues : y_values' = Append(y_values, v)
    /\ UNCHANGED <<data, df, is_vulnerable, baseline_df, recommendation, analysis,
                   x_values, pc, calls>>

Correlate ==
    /\ pc = "points"
    /\ analysis' \in CalculatePearsonCorrelation(x_values, y_values)
    /\ pc' = "correlated"
    /\ UNCHANGED <<data, df, is_vulnerable, baseline_df, recommendation,
                   x_values, y_values, calls>>

NextPearson == AppendX \/ AppendY \/ Correlate

SpecPearson == InitPearson /\ [][NextPearson]_vars

AllIdentical(s) == \A i, j \in 1..Len(s) : s[i] = s[j]

(* C14: calculate_pearson_correlation returns exactly 0.0, and does not    *)
(* raise, when one of the lists has fewer than 2 values, and, for paired   *)
(* lists (of one length), when all x values or all y values are identical. *)
C14_DegenerateCorrelationIsZero ==
    pc = "correlated" =>
        /\ (Len(x_values) < 2 \/ Len(y_values) < 2) => analysis = Returns(0)
        /\ ( /\ Len(x_values) = Len(y_values)
             /\ AllIdentical(x_values) \/ AllIdentical(y_values) )
              => analysis = Returns(0)

\* three points whose x values differ and whose y values do not
C14_Witness_ConstantY ==
    /\ pc = "correlated"
    /\ Len(x_values) = 3
    /\ Len(y_values) = 3
    /\ ~AllIdentical(x_values)
    /\ AllIdentical(y_values)
    /\ analysis = Returns(0)

(* C15: for two lists of one length the coefficient of (x, y) is the       *)
(* coefficient of (y, x), and it lies in [-1, 1].                          *)
C15_SymmetricAndBounded ==
    (pc = "correlated" /\ Len(x_values) = Len(y_values)) =>
        /\ "returns" \in DOMAIN analysis
        /\ CalculatePearsonCorrelation(x_values, y_values)
              = CalculatePearsonCorrelation(y_values, x_values)
        /\ -100 <= analysis.returns
        /\ analysis.returns <= 100

\* three points with a coefficient of 0.5
C15_Witness_HalfCorrelated ==
    /\ pc = "correlated"
    /\ Len(x_values) = 3
    /\ Len(y_values) = 3
    /\ x_values # y_values
    /\ analysis = Returns(50)

----------------------------------------------------------------------------
(* Specification of the sleep buckets: batches of up to MaxDiary days,     *)
(* every night logged, that vary the sleep and the tic count.              *)

MaxDiary == 7

\* <<sleep in half hours, tics>>: nights of 6 and of 8 hours, with no tics
\* or with 3
DiaryNights == {<<12, 0>>, <<12, 3>>, <<16, 0>>, <<16, 3>>}

\* one more day in the batch, in ascending date order
LogDiaryNight ==
    /\ pc = "batch"
    /\ Len(data) < MaxDiary
    /\ \E st \in DiaryNights :
         data' = Append(data, Entry(Len(data) + 1, <<st[1]>>, <<1>>, <<90>>, <<st[2]>>, <<>>))
    /\ UNCHANGED <<df, is_vulnerable, baseline_df, recommendation, analysis,
                   x_values, y_values, pc, calls>>

NextBuckets == LogDiaryNight \/ CalculateSleepAnalysis

SpecBuckets == InitBatch /\ [][NextBuckets]_vars

SleepAnalysed == pc = "sleep_analysis" /\ "success" \in DOMAIN analysis

\* how far, in twentieths of an hour, the sleep of day k is from the
\* optimal_sleep_hours of the result
OffOptimal(k) ==
    LET s == 10 * data[k].sleep_hours[1]
        optimal == 2 * analysis.optimal_sleep_hours
    IN  IF s < optimal THEN optimal - s ELSE s - optimal

\* the analysed days within 0.75 h of optimal_sleep
GoodBucket == {k \in LoggedPositions : OffOptimal(k) <= 15}

\* the analysed days more than 1.5 h from optimal_sleep
BadBucket == {k \in LoggedPositions : OffOptimal(k) > 30}

\* p is num/den rounded to an integer, for den > 0
IsRounded(p, num, den) ==
    /\ 2 * (num - p * den) <= den
    /\ 2 * (p * den - num) <= den

(* C16: percent_difference is null exactly when the good bucket (the       *)
(* analysed days within 0.75 h of optimal_sleep) is empty, the bad bucket  *)
(* (those more than 1.5 h from it) is empty, or the good-bucket average is *)
(* 0; in every other case, a bad-bucket average of 0 included, it is       *)
(* (bad_avg - good_avg) / good_avg * 100 rounded to an integer.            *)
C16_PercentDifference ==
    SleepAnalysed =>
        /\ (analysis.avg_tics_good_sleep = <<>>) <=> (GoodBucket = {})
        /\ (analysis.avg_tics_bad_sleep = <<>>) <=> (BadBucket = {})
        /\ IF \/ GoodBucket = {}
              \/ BadBucket = {}
              \/ analysis.avg_tics_good_sleep = <<0>>
           THEN analysis.percent_difference = <<>>
           ELSE /\ analysis.percent_difference # <<>>
                /\ IsRounded(analysis.percent_difference[1],
                             100 * (analysis.avg_tics_bad_sleep[1]
                                      - analysis.avg_tics_good_sleep[1]),
                             analysis.avg_tics_good_sleep[1])

----------------------------------------------------------------------------
(* Specification of the factor profiles: batches of up to MaxFactorDays    *)
(* days with distinct dates that vary the tic count and the uses of one    *)
(* custom factor, given to analyze_protective_factors.                     *)

MaxFactorDays == 3

\* the factor "walk" logged as an aggravating one (impact > 0)
Strained == [name |-> "walk", level |-> 1, effect |-> 2]

\* the custom lists of a day: no factor, the protective factor once, the
\* same factor logged twice that day, the factor logged as aggravating
FactorUses == {<<>>, <<Protective>>, <<Protective, Protective>>, <<Strained>>}

FactorTics == {0, 2, 8, 10}

\* one more day in the batch, in ascending date order
LogFactorDay ==
    /\ pc = "batch"
    /\ Len(data) < MaxFactorDays
    /\ \E tics \in FactorTics, custom \in FactorUses :
         data' = Append(data, Entry(Len(data) + 1, <<16>>, <<1>>, <<90>>, <<tics>>, custom))
    /\ UNCHANGED <<df, is_vulnerable, baseline_df, recommendation, analysis,
                   x_values, y_values, pc, calls>>

NextFactors == LogFactorDay \/ AnalyzeProtectiveFactors

SpecFactors == InitBatch /\ [][NextFactors]_vars

FactorsAnalysed == pc = "protective_factors"

\* the days of the batch on which the factor was used protectively
DaysWith(name) ==
    {k \in 1..Len(data) :
        \E i \in 1..Len(data[k].custom) :
            /\ data[k].custom[i].name = name
            /\ data[k].custom[i].level * data[k].custom[i].effect < 0}

\* the days of the batch on which it was not
DaysWithout(name) == (1..Len(data)) \ DaysWith(name)

\* the factors with at least one negative-impact usage
ProtectiveNames ==
    {name \in UNION {{data[k].custom[i].name : i \in 1..Len(data[k].custom)} :
                        k \in 1..Len(data)} :
        DaysWith(name) # {}}

RECURSIVE TicsOver(_)
\* the sum of the tic counts of a set of days
TicsOver(days) ==
    IF days = {} THEN 0
    ELSE LET k == CHOOSE d \in days : TRUE
         IN  data[k].tic_count[1] + TicsOver(days \ {k})

\* the entries of the ranked list for the factor
Reported(name) ==
    {i \in 1..Len(analysis.all_protective_factors) :
        analysis.all_protective_factors[i].name = name}

(* C17: for every custom factor with at least one negative-impact usage    *)
(* and at least one day without it, tic_reduction_pct is (avg_without -    *)
(* avg_with) / avg_without * 100 to one decimal, where avg_with is the     *)
(* mean tic count over the days the factor was used protectively and       *)
(* avg_without the mean over the days it was not, and is 0 when            *)
(* avg_without is 0.                                                       *)
C17_TicReductionOverDays ==
    FactorsAnalysed =>
        \A name \in ProtectiveNames :
            /\ Cardinality(Reported(name)) = 1
            /\ DaysWithout(name) # {} =>
                 LET with == TicsOver(DaysWith(name))
                     n_with == Cardinality(DaysWith(name))
                     without == TicsOver(DaysWithout(name))
                     n_without == Cardinality(DaysWithout(name))
                     pct == analysis.all_protective_factors[
                                CHOOSE i \in Reported(name) : TRUE].tic_reduction_pct
                 IN  IF without = 0 THEN pct = 0
                     ELSE IsRounded(pct,
                                    1000 * (without * n_with - with * n_without),
                                    without * n_with)

\* how many times day k lists the factor as a protective one
UsesOn(k, name) ==
    Cardinality({i \in 1..Len(data[k].custom) :
                    /\ data[k].custom[i].name = name
                    /\ data[k].custom[i].level * data[k].custom[i].effect < 0})

RECURSIVE UsagesOver(_, _)
\* the protective usages of the factor on a set of days
UsagesOver(days, name) ==
    IF days = {} THEN 0
    ELSE LET k == CHOOSE d \in days : TRUE
         IN  UsesOn(k, name) + UsagesOver(days \ {k}, name)

RECURSIVE TicsOverUsages(_, _)
\* the sum of the tic counts of a set of days, each counted once per usage
TicsOverUsages(days, name) ==
    IF days = {} THEN 0
    ELSE LET k == CHOOSE d \in days : TRUE
         IN  UsesOn(k, name) * data[k].tic_count[1] + TicsOverUsages(days \ {k}, name)

\* no day lists a factor twice
OncePerDay == \A k \in 1..Len(data), name \in ProtectiveNames : UsesOn(k, name) <= 1

\* the days the baseline average is taken over: the days without the
\* factor, the whole batch when the factor was used on every day
BaselineDays(name) ==
    IF DaysWithout(name) # {} THEN DaysWithout(name) ELSE 1..Len(data)

ReportedEntry(name) ==
    analysis.all_protective_factors[CHOOSE i \in Reported(name) : TRUE]

----------------------------------------------------------------------------
(* Specification of the ranking: batches of up to MaxRankDays days with    *)
(* distinct dates that use up to six protective factors, given to          *)
(* analyze_protective_factors.                                             *)

MaxRankDays == 3

\* a factor logged as a protective one (impact < 0)
Helps(name) == [name |-> name, level |-> 1, effect |-> -1]

\* the custom lists of a day
RankedUses ==
    {<<>>,
     <<Helps("walk"), Helps("music"), Helps("nap")>>,
     <<Helps("tea"), Helps("yoga"), Helps("bath")>>,
     <<Helps("nap"), Helps("tea")>>}

RankedTics == {0, 4, 8}

\* one more day in the batch, in ascending date order
LogRankedDay ==
    /\ pc = "batch"
    /\ Len(data) < MaxRankDays
    /\ \E tics \in RankedTics, custom \in RankedUses :
         data' = Append(data, Entry(Len(data) + 1, <<16>>, <<1>>, <<90>>, <<tics>>, custom))
    /\ UNCHANGED <<df, is_vulnerable, baseline_df, recommendation, analysis,
                   x_values, y_values, pc, calls>>

NextRanking == LogRankedDay \/ AnalyzeProtectiveFactors

SpecRanking == InitBatch /\ [][NextRanking]_vars

\* the values tic_reduction_pct may take for a factor, in tenths: the
\* reduction of its average over usages against the average of the days
\* without it, 0 when there is no such day or their average is 0
ReductionsOf(name) ==
    LET with == TicsOverUsages(DaysWith(name), name)
        n_with == UsagesOver(DaysWith(name), name)
        without == TicsOver(DaysWithout(name))
        n_without == Cardinality(DaysWithout(name))
    IN  IF DaysWithout(name) = {} \/ without = 0 THEN {0}
        ELSE Rounded(1000 * (without * n_with - with * n_without), without * n_with)

RankedList == analysis.all_protective_factors

RankedNames == {RankedList[i].name : i \in 1..Len(RankedList)}

(* C19: the ranked factor list is in non-increasing order of               *)
(* tic_reduction_pct, holds at most 5 entries, each a different factor     *)
(* with a negative-impact usage, holds all of them when there are at most  *)
(* 5 and otherwise 5 such that no omitted factor has a strictly higher     *)
(* reduction than a listed one; best_protective_factor is its first entry, *)
(* and is null exactly when no protective factor was used.                 *)
C19_RankedTopFive ==
    FactorsAnalysed =>
        /\ \A i \in 1..(Len(RankedList) - 1) :
               RankedList[i].tic_reduction_pct >= RankedList[i + 1].tic_reduction_pct
        /\ Len(RankedList) <= 5
        /\ Len(RankedList) = Min(5, Cardinality(ProtectiveNames))
        /\ Cardinality(RankedNames) = Len(RankedList)
        /\ RankedNames \subseteq ProtectiveNames
        /\ \A i \in 1..Len(RankedList) :
               RankedList[i].tic_reduction_pct \in ReductionsOf(RankedList[i].name)
        /\ \A omitted \in ProtectiveNames \ RankedNames :
               \A i \in 1..Len(RankedList), pct \in ReductionsOf(omitted) :
                   pct <= RankedList[i].tic_reduction_pct
        /\ (analysis.best_protective_factor = <<>>) <=> (ProtectiveNames = {})
        /\ RankedList # <<>> => analysis.best_protective_factor = <<RankedList[1]>>
        /\ RankedList = <<>> => analysis.best_protective_factor = <<>>

\* six factors used, the five listed of two different reductions, and a
\* factor met before a listed one left out
C19_Witness_SixFactors ==
    /\ FactorsAnalysed
    /\ Cardinality(ProtectiveNames) = 6
    /\ Len(RankedList) = 5
    /\ RankedList[1].tic_reduction_pct > RankedList[5].tic_reduction_pct
    /\ analysis.best_protective_factor = <<RankedList[1]>>
    /\ "nap" \notin RankedNames
    /\ data[1].custom = <<Helps("walk"), Helps("music"), Helps("nap")>>

----------------------------------------------------------------------------
(* Specification of the best days: batches of up to MaxBestDays days with  *)
(* distinct dates that vary the stress and the study time, so that days    *)
(* share a TNL, given to analyze_protective_factors.                       *)

MaxBestDays == 5

\* <<stress, study_minutes>>: a TNL of 0, of 1 by the stress, of 1 by the
\* study time, and of 2
BestDayLoads == {<<0, 0>>, <<1, 0>>, <<0, 90>>, <<2, 0>>}

\* one more day in the batch, in ascending date order
LogLoadDay ==
    /\ pc = "batch"
    /\ Len(data) < MaxBestDays
    /\ \E w \in BestDayLoads :
         data' = Append(data, Entry(Len(data) + 1, <<16>>, <<w[1]>>, <<w[2]>>, <<1>>, <<>>))
    /\ UNCHANGED <<df, is_vulnerable, baseline_df, recommendation, analysis,
                   x_values, y_values, pc, calls>>

NextBestDays == LogLoadDay \/ AnalyzeProtectiveFactors

SpecBestDays == InitBatch /\ [][NextBestDays]_vars

\* the TNL of day k without sleep penalty, in units of 1/Scale: the stress,
\* the study time as a share of 900 minutes out of 10, the aggravating
\* impacts
TnlOf(k) ==
    LET aggravating == {i \in 1..Len(data[k].custom) :
                           data[k].custom[i].level * data[k].custom[i].effect > 0}
        study == data[k].study_minutes[1]
    IN  Scale * data[k].stress[1]
          + (IF study > 900 THEN 10 * Scale ELSE (10 * Scale * study) \div 900)
          + Scale * SeqSum([i \in 1..Len(data[k].custom) |->
                            IF i \in aggravating
                            THEN data[k].custom[i].level * data[k].custom[i].effect
                            ELSE 0])

BestDays == analysis.top_3_best_days

\* the positions in the batch of the days listed
BestPositions == {BestDays[i].src : i \in 1..Len(BestDays)}

(* C20: for every non-empty batch, lowest_tnl_day has the minimum TNL of   *)
(* the batch; top_3_best_days holds min(3, n) days in non-decreasing TNL   *)
(* order, no unlisted day has a strictly lower TNL than a listed one, days *)
(* of equal TNL keep their input order, and its first entry is the same    *)
(* day as lowest_tnl_day.                                                  *)
C20_BestDays ==
    (FactorsAnalysed /\ data # <<>>) =>
        /\ analysis.lowest_tnl_day # <<>>
        /\ LET lowest == analysis.lowest_tnl_day[1]
           IN  /\ lowest.src \in 1..Len(data)
               /\ \A k \in 1..Len(data) : TnlOf(lowest.src) <= TnlOf(k)
               /\ BestDays[1] = lowest
        /\ Len(BestDays) = Min(3, Len(data))
        /\ Cardinality(BestPositions) = Len(BestDays)
        /\ BestPositions \subseteq 1..Len(data)
        /\ \A i \in 1..Len(BestDays) :
               /\ BestDays[i].date = data[BestDays[i].src].date
               /\ BestDays[i].tnl = TnlOf(BestDays[i].src)
        /\ \A i, j \in 1..Len(BestDays) :
               i < j => \/ TnlOf(BestDays[i].src) < TnlOf(BestDays[j].src)
                        \/ /\ TnlOf(BestDays[i].src) = TnlOf(BestDays[j].src)
                           /\ BestDays[i].src < BestDays[j].src
        /\ \A k \in (1..Len(data)) \ BestPositions :
               \A i \in BestPositions : TnlOf(i) <= TnlOf(k)

\* five days; the two of least TNL share it, one by its stress and one by
\* its study time, and are not the first days of the batch; a third day of
\* that TNL is listed and a fourth is not
C20_Witness_SharedLowestTnl ==
    /\ FactorsAnalysed
    /\ Len(data) = 5
    /\ TnlOf(1) = 2 * Scale
    /\ \A k \in 2..5 : TnlOf(k) = Scale
    /\ data[2].stress = <<1>>
    /\ data[3].study_minutes = <<90>>
    /\ analysis.lowest_tnl_day[1].src = 2
    /\ BestPositions = {2, 3, 4}

----------------------------------------------------------------------------
(* generate_full_report (generate_report.py): the best-days cards.  The    *)
(* report posts the batch to /api/protective-factors and renders the       *)
(* top_3_best_days of the response.                                        *)

\* the top_3_best_days of the response of /api/protective-factors: an
\* empty batch is refused with a 400 and an exception answered with a 500,
\* neither of which has such a key
ResponseBestDays(batch, result) ==
    IF batch = <<>> \/ "raises" \in DOMAIN result THEN <<>>
    ELSE [i \in 1..Len(result.top_3_best_days) |->
             [date |-> result.top_3_best_days[i].date,
              tnl |-> result.top_3_best_days[i].tnl,
              tics |-> result.top_3_best_days[i].tics,
              factors |-> [k \in 1..Len(result.top_3_best_days[i].protective_factors) |->
                              result.top_3_best_days[i].protective_factors[k].name]]]

\* the functions round(tnl, 1) may be on the TNLs of the days, in tenths:
\* one value for one TNL
RoundedTnls(top_3_days) ==
    LET tnls == {top_3_days[i].tnl : i \in 1..Len(top_3_days)}
        tenths == UNION {Rounded(10 * tnl, Scale) : tnl \in tnls}
    IN  {f \in [tnls -> tenths] : \A tnl \in tnls : f[tnl] \in Rounded(10 * tnl, Scale)}

\* the medal of a position
MedalOfPosition(i) == IF i = 1 THEN "gold" ELSE IF i = 2 THEN "silver" ELSE "bronze"

\* a bug: the medal of the position whatever the TNL
Medal_ByPosition(current_tnl, i) == MedalOfPosition(i)

RECURSIVE Medal(_, _)
\* the medal of card i: that of the card before when the rounded TNL is the
\* same, that of its position otherwise
Medal(current_tnl, i) ==
    IF i > 1 /\ current_tnl[i] = current_tnl[i - 1]
    THEN Medal(current_tnl, i - 1)
    ELSE MedalOfPosition(i)

\* the cards of the best-days section
BestDayCards(top_3_days, round) ==
    LET shown == Take(top_3_days, TOP_DAYS)
        current_tnl == [i \in 1..Len(shown) |-> round[shown[i].tnl]]
    IN  [i \in 1..Len(shown) |->
            [medal |-> Medal(current_tnl, i),
             date |-> shown[i].date,
             current_tnl |-> current_tnl[i],
             tics |-> shown[i].tics,
             factors |-> shown[i].factors]]

\* the reports generate_full_report may write for the batch
FullReports(batch) ==
    UNION {LET top_3_days == ResponseBestDays(batch, result)
           IN  {[best_days |-> BestDayCards(top_3_days, round)] :
                   round \in RoundedTnls(top_3_days)} :
             result \in ProtectiveFactorAnalysis(batch)}

GenerateFullReport ==
    /\ pc = "batch"
    /\ analysis' \in FullReports(data)
    /\ pc' = "report"
    /\ UNCHANGED <<data, df, is_vulnerable, baseline_df, recommendation,
                   x_values, y_values, calls>>

----------------------------------------------------------------------------
(* Specification of the report: the batches of the best-days               *)
(* specification, rendered.                                                *)

NextReport == LogLoadDay \/ GenerateFullReport

SpecReport == InitBatch /\ [][NextReport]_vars

Rendered == pc = "report"

\* the day of the batch a card shows (the dates of the batch are distinct)
DayOfCard(card) == CHOOSE k \in 1..Len(data) : data[k].date = card.date

(* C21: in the rendered best-days list, any two of the top-3 days whose    *)
(* TNL values are equal carry the same medal.                              *)
C21_EqualTnlSameMedal ==
    Rendered =>
        \A i, j \in 1..Len(analysis.best_days) :
            TnlOf(DayOfCard(analysis.best_days[i])) = TnlOf(DayOfCard(analysis.best_days[j]))
                => analysis.best_days[i].medal = analysis.best_days[j].medal

\* five days, the second and the third card tied behind the first: the
\* third card carries the silver medal of the second
C21_Witness_LastTwoTied ==
    /\ Rendered
    /\ Len(data) = 5
    /\ Len(analysis.best_days) = 3
    /\ TnlOf(DayOfCard(analysis.best_days[1])) < TnlOf(DayOfCard(analysis.best_days[2]))
    /\ TnlOf(DayOfCard(analysis.best_days[2])) = TnlOf(DayOfCard(analysis.best_days[3]))
    /\ data[DayOfCard(analysis.best_days[2])].stress # data[DayOfCard(analysis.best_days[3])].stress
    /\ [i \in 1..3 |-> analysis.best_days[i].medal] = <<"gold", "silver", "silver">>

----------------------------------------------------------------------------
(* Specification of the records without a date: batches in which a record  *)
(* may lack the date key, given to calculate_daily_metrics (either         *)
(* service) and to analyze_protective_factors.                             *)

\* <<has a date, tics>>
DatedOrNot == {<<TRUE, 1>>, <<TRUE, 5>>, <<FALSE, 1>>, <<FALSE, 5>>}

\* one more record: of the next date, or without the date key
SubmitDatedOrNot ==
    \E dt \in DatedOrNot :
        Submit(Entry(IF dt[1] THEN Len(data) + 1 ELSE NoDate,
                     <<16>>, <<1>>, <<90>>, <<dt[2]>>, <<>>))

NextUndated ==
    \/ SubmitDatedOrNot
    \/ CalculateDailyMetricsAnalysisLogic
    \/ CalculateDailyMetricsApp
    \/ AnalyzeProtectiveFactors

SpecUndated == InitBatch /\ [][NextUndated]_vars

\* the records of the batch that carry a date
DatedPositions == {k \in 1..Len(data) : data[k].date # NoDate}

(* C22: a record that lacks the date key is excluded from the batch: it    *)
(* has no row in the per-day table of calculate_daily_metrics, so that the *)
(* latest day of the table is a dated record, and no entry in the days     *)
(* analyze_protective_factors analyses; the other records are processed    *)
(* and no error is raised.                                                 *)
C22_UndatedRecordExcluded ==
    /\ pc # "raised"
    /\ pc \in {"metrics_analysis_logic", "metrics_app"} =>
           /\ {df[i].src : i \in 1..Len(df)} = DatedPositions
           /\ Len(df) = Cardinality(DatedPositions)
           /\ df # <<>> => df[Len(df)].date # NoDate
    /\ pc = "protective_factors" =>
           /\ analysis.total_days_analyzed = Cardinality(DatedPositions)
           /\ \A i \in 1..Len(analysis.top_3_best_days) :
                  analysis.top_3_best_days[i].src \in DatedPositions
           /\ analysis.lowest_tnl_day # <<>> =>
                  analysis.lowest_tnl_day[1].src \in DatedPositions

----------------------------------------------------------------------------
(* Specification of the dates: batches whose records carry any of          *)
(* MaxDate dates, in any order and more than once, given to                *)
(* calculate_daily_metrics (either service).                               *)

MaxDate == 3

\* one more record, of any date, with 1 tic or 5
SubmitAnyDate ==
    \E d \in 1..MaxDate, tics \in {1, 5} :
        Submit(Entry(d, <<16>>, <<1>>, <<90>>, <<tics>>, <<>>))

NextDates ==
    \/ SubmitAnyDate
    \/ CalculateDailyMetricsAnalysisLogic
    \/ CalculateDailyMetricsApp

SpecDates == InitBatch /\ [][NextDates]_vars

\* the record submitted last for the date
LastSubmitted(date) ==
    CHOOSE k \in 1..Len(data) :
        /\ data[k].date = date
        /\ \A j \in (k + 1)..Len(data) : data[j].date # date

(* C23: for any input order, the dates of the per-day table are strictly   *)
(* increasing: the rows are in ascending date order, there is exactly one  *)
(* row for each date of the batch, and the row of a date submitted more    *)
(* than once is that of the record submitted last.                         *)
C23_OneRowPerDateAscending ==
    pc \in {"metrics_analysis_logic", "metrics_app"} =>
        /\ \A i \in 1..(Len(df) - 1) : df[i].date < df[i + 1].date
        /\ {df[i].date : i \in 1..Len(df)} = {data[k].date : k \in 1..Len(data)}
        /\ \A i \in 1..Len(df) : df[i].src = LastSubmitted(df[i].date)

----------------------------------------------------------------------------
(* Specification of the malformed fields: batches of up to MaxMalformed    *)
(* days in which a record may lack its fields or hold a null, given to     *)
(* calculate_daily_metrics (either service), calculate_sleep_analysis and  *)
(* analyze_protective_factors.                                             *)

MaxMalformed == 7

\* <<sleep_hours, stress, study_minutes, tic_count>> of a day: all numbers,
\* no key at all, a null sleep_hours, a null stress
FieldsOfDay ==
    {<< <<14>>, <<1>>, <<90>>, <<2>> >>,
     << <<>>, <<>>, <<>>, <<>> >>,
     << Null, <<1>>, <<90>>, <<2>> >>,
     << <<14>>, Null, <<90>>, <<2>> >>}

\* one more day in the batch, in ascending date order
LogAnyFields ==
    /\ pc = "batch"
    /\ Len(data) < MaxMalformed
    /\ \E f \in FieldsOfDay :
         data' = Append(data, Entry(Len(data) + 1, f[1], f[2], f[3], f[4], <<>>))
    /\ UNCHANGED <<df, is_vulnerable, baseline_df, recommendation, analysis,
                   x_values, y_values, pc, calls>>

NextMalformed ==
    \/ LogAnyFields
    \/ CalculateDailyMetricsAnalysisLogic
    \/ CalculateDailyMetricsApp
    \/ CalculateSleepAnalysis
    \/ AnalyzeProtectiveFactors

SpecMalformed == InitBatch /\ [][NextMalformed]_vars

\* the number a field stands for: its value, the default when the key is
\* missing or the value is a null
OrDefault(field, default) ==
    IF field = <<>> \/ field = Null THEN default ELSE field[1]

(* C24: for any batch in which some record's stress, study_minutes,        *)
(* tic_count or sleep_hours is missing or null, calculate_daily_metrics,   *)
(* calculate_sleep_analysis and analyze_protective_factors complete with   *)
(* their normal result, computed with the default of the field (0; 8.0 for *)
(* sleep_hours in the normalizer): none of them raises an error.           *)
C24_MalformedFieldsDefaulted ==
    /\ pc # "raised"
    /\ pc \in {"metrics_analysis_logic", "metrics_app"} =>
           /\ Len(df) = Len(data)
           /\ \A i \in 1..Len(df) :
                  /\ df[i].tics = OrDefault(data[df[i].src].tic_count, 0)
                  /\ df[i].stress_contrib = Scale * OrDefault(data[df[i].src].stress, 0)
                  /\ df[i].study_contrib * 900
                         = 10 * Scale * OrDefault(data[df[i].src].study_minutes, 0)
    /\ pc = "sleep_analysis" =>
           \/ "error" \in DOMAIN analysis
           \/ analysis.days_analyzed
                  = Cardinality({k \in 1..Len(data) :
                                    OrDefault(data[k].sleep_hours, 0) > 0})
    /\ pc = "protective_factors" =>
           /\ analysis.total_days_analyzed = Len(data)
           /\ \A i \in 1..Len(analysis.top_3_best_days) :
                  LET day == analysis.top_3_best_days[i]
                  IN  /\ day.tics = OrDefault(data[day.src].tic_count, 0)
                      /\ day.stress = OrDefault(data[day.src].stress, 0)
                      /\ day.study_minutes = OrDefault(data[day.src].study_minutes, 0)

----------------------------------------------------------------------------
(* Specification of a serving process: one request after another, each     *)
(* with its own batch and for one of the analysis functions.  calls keeps  *)
(* what every call was given, what it returned and what it left of its     *)
(* input.                                                                  *)

MaxCalls == 3

\* a week with the walk on the even days; the nights are whole hours, so
\* that no mean of the week falls half-way between two roundings
CalmWeek ==
    [k \in 1..7 |-> Entry(k, <<2 * k + 6>>, <<1>>, <<90>>, <<k>>,
                          IF k % 2 = 0 THEN <<Protective>> ELSE <<>>)]

\* the same dates with other entries
HardWeek ==
    [k \in 1..7 |-> Entry(k, <<22 - 2 * k>>, <<3>>, <<180>>, <<2 * k>>,
                          IF k > 4 THEN <<Protective>> ELSE <<>>)]

\* the batches the clients send: two weeks, and the first two days of one
RequestBatches == {CalmWeek, HardWeek, SubSeq(CalmWeek, 1, 2)}

\* the batches of the earlier calls of a function, oldest first
RECURSIVE BatchesGiven(_, _)
BatchesGiven(function, k) ==
    IF k = 0 THEN <<>>
    ELSE BatchesGiven(function, k - 1)
         \o (IF calls[k].function = function THEN calls[k].batch ELSE <<>>)

\* a bug: the list a function collects its days in created once, at module
\* level, so that every call finds the days of the calls before it
NewList_ModuleLevel(collected_before) == collected_before

\* daily_info = [], sleep_hours = [], tic_counts = [], the frame of
\* json_normalize: the list a function collects its days in is created
\* inside the call, empty whatever the earlier calls collected
NewList(collected_before) == <<>>

\* the days a call of the function works on, given the batch
Collected(function, batch) ==
    NewList(BatchesGiven(function, Len(calls))) \o batch

\* analysis_logic.py's calculate_daily_metrics as a function of the batch:
\* the per-day table, or the exception
DailyMetricsAnalysisLogic(batch) ==
    IF batch = <<>> \/ ~HasColumnsAnalysisLogic(batch) THEN {Raises("KeyError")}
    ELSE LET frame == FrameAnalysisLogic(batch)
             vulnerable == DetermineSleepVulnerability(frame)
             rows == [i \in 1..Len(frame) |->
                         MetricsRowAnalysisLogic(frame[i], vulnerable)]
         IN  SortIndex(rows)

\* app.py's calculate_daily_metrics followed by
\* generate_pacing_recommendation, as get_visualization calls them
PacingOfBatch(batch) ==
    IF batch = <<>> \/ ~HasColumnsApp(batch) THEN {Raises("KeyError")}
    ELSE LET rows == [i \in 1..Len(batch) |-> MetricsRowApp(batch[i], i)]
         IN  {PacingApp(metrics_df) : metrics_df \in SortIndex(rows)}

\* the call is answered: request.json is the batch for the time of the call
Answer(function, batch, result) ==
    /\ Len(calls) < MaxCalls
    /\ data' = batch
    /\ calls' = Append(calls, [function |-> function,
                               batch |-> batch,
                               result |-> result,
                               batch_after |-> data'])
    /\ pc' = "answered"

CallDailyMetrics ==
    \E batch \in RequestBatches :
      \E metrics_df \in DailyMetricsAnalysisLogic(Collected("calculate_daily_metrics", batch)) :
        /\ Answer("calculate_daily_metrics", batch, metrics_df)
        /\ df' = metrics_df
        /\ UNCHANGED <<is_vulnerable, baseline_df, recommendation, analysis,
                       x_values, y_values>>

CallPacingRecommendation ==
    \E batch \in RequestBatches :
      \E result \in PacingOfBatch(Collected("generate_pacing_recommendation", batch)) :
        /\ Answer("generate_pacing_recommendation", batch, result)
        /\ recommendation' = result
        /\ UNCHANGED <<df, is_vulnerable, baseline_df, analysis,
                       x_values, y_values>>

CallSleepAnalysis ==
    \E batch \in RequestBatches :
      \E result \in SleepAnalysis(Collected("calculate_sleep_analysis", batch)) :
        /\ Answer("calculate_sleep_analysis", batch, result)
        /\ analysis' = result
        /\ UNCHANGED <<df, is_vulnerable, baseline_df, recommendation,
                       x_values, y_values>>

CallProtectiveFactors ==
    \E batch \in RequestBatches :
      \E result \in ProtectiveFactorAnalysis(Collected("analyze_protective_factors", batch)) :
        /\ Answer("analyze_protective_factors", batch, result)
        /\ analysis' = result
        /\ UNCHANGED <<df, is_vulnerable, baseline_df, recommendation,
                       x_values, y_values>>

NextCalls ==
    \/ CallDailyMetrics
    \/ CallPacingRecommendation
    \/ CallSleepAnalysis
    \/ CallProtectiveFactors

SpecCalls == InitBatch /\ [][NextCalls]_vars

----------------------------------------------------------------------------
(* generate_protective_factor_insight.  A factor name is the sequence of   *)
(* its characters here, so that lower() and the substring test of the rare *)
(* lexicon are the operations of the code.                                 *)

CAPITALS == <<"A", "B", "C", "D", "E", "F", "G", "H", "I", "J", "K", "L", "M",
              "N", "O", "P", "Q", "R", "S", "T", "U", "V", "W", "X", "Y", "Z">>

SMALLS == <<"a", "b", "c", "d", "e", "f", "g", "h", "i", "j", "k", "l", "m",
            "n", "o", "p", "q", "r", "s", "t", "u", "v", "w", "x", "y", "z">>

\* str.lower()
Lower(name) ==
    [i \in 1..Len(name) |->
        IF \E c \in 1..Len(CAPITALS) : CAPITALS[c] = name[i]
        THEN SMALLS[CHOOSE c \in 1..Len(CAPITALS) : CAPITALS[c] = name[i]]
        ELSE name[i]]

\* term in name
Contains(term, name) ==
    \E i \in 0..(Len(name) - Len(term)) : SubSeq(name, i + 1, i + Len(term)) = term

\* rare_factors: vacation, vacation day, holiday, beach trip, travel,
\* recovery day, sick day, day off
RARE_FACTORS ==
    <<<<"v", "a", "c", "a", "t", "i", "o", "n">>,
      <<"v", "a", "c", "a", "t", "i", "o", "n", " ", "d", "a", "y">>,
      <<"h", "o", "l", "i", "d", "a", "y">>,
      <<"b", "e", "a", "c", "h", " ", "t", "r", "i", "p">>,
      <<"t", "r", "a", "v", "e", "l">>,
      <<"r", "e", "c", "o", "v", "e", "r", "y", " ", "d", "a", "y">>,
      <<"s", "i", "c", "k", " ", "d", "a", "y">>,
      <<"d", "a", "y", " ", "o", "f", "f">>>>

\* any(rare in name.lower() for rare in rare_factors)
IsRare(name) ==
    \E r \in 1..Len(RARE_FACTORS) : Contains(RARE_FACTORS[r], Lower(name))

IsRegularAlternative(f) == ~IsRare(f.name) /\ f.tic_reduction_pct > 0

\* a bug: the rare factors left among the alternatives
RegularAlternatives_WithRare(all_factors) ==
    SelectSeq(all_factors, LAMBDA f : f.tic_reduction_pct > 0)

\* regular_alternatives: the factors of the ranking that are not rare and
\* reduce the tics, in the order of the ranking
RegularAlternatives(all_factors) ==
    SelectSeq(all_factors, IsRegularAlternative)

\* the insight on the best factor: none when there is no best factor, one
\* message otherwise.  tic_reduction_pct is in tenths of a percent.
BestFactorInsight(result) ==
    IF result.best_protective_factor = <<>> THEN <<>>
    ELSE LET best == result.best_protective_factor[1]
             reduction == best.tic_reduction_pct
             regular_alternatives == RegularAlternatives(result.all_protective_factors)
         IN  IF reduction > 200
             THEN IF IsRare(best.name)
                  THEN IF regular_alternatives # <<>>
                       THEN <<[message |-> "MVP, try your best daily option instead",
                               name |-> best.name,
                               alt |-> regular_alternatives[1]]>>
                       ELSE <<[message |-> "MVP, add small versions to your routine",
                               name |-> best.name]>>
                  ELSE <<[message |-> "MVP, your secret weapon", name |-> best.name]>>
             ELSE IF reduction > 100
             THEN <<[message |-> "Top Helper", name |-> best.name]>>
             ELSE IF reduction > 0
             THEN <<[message |-> "shows promise", name |-> best.name]>>
             ELSE <<[message |-> "needs more data", name |-> best.name]>>

\* the insight on the day of the lowest TNL
LowestDayInsight(result) ==
    IF result.lowest_tnl_day = <<>> THEN <<>>
    ELSE LET lowest == result.lowest_tnl_day[1]
         IN  <<[message |-> IF lowest.protective_factors # <<>>
                            THEN "Your Best Day, what worked"
                            ELSE "Your Best Day",
                date |-> lowest.date]>>

\* the ranking, given for two factors or more
RankingInsight(result) ==
    IF Len(result.all_protective_factors) >= 2
    THEN <<[message |-> "Your Protective Factor Ranking",
            lines |-> Take(result.all_protective_factors, TOP_FACTORS)]>>
    ELSE <<>>

\* the insights generate_protective_factor_insight joins
ProtectiveFactorInsight(result) ==
    LET insights == BestFactorInsight(result) \o LowestDayInsight(result)
                        \o RankingInsight(result)
    IN  IF insights # <<>> THEN insights
        ELSE <<[message |-> "Track more days with protective factors"]>>

\* the answer of /api/protective-factors
ProtectiveFactorResponse(batch, result) ==
    IF batch = <<>> THEN [error |-> "Missing JSON payload"]
    ELSE IF "raises" \in DOMAIN result
    THEN [error |-> "Protective factor analysis failed", success |-> FALSE]
    ELSE [success |-> TRUE,
          insight_message |-> ProtectiveFactorInsight(result),
          best_factor |-> result.best_protective_factor,
          all_factors |-> result.all_protective_factors,
          days_analyzed |-> result.total_days_analyzed]

\* POST /api/protective-factors with the batch
GetProtectiveFactorAnalysis ==
    /\ pc = "batch"
    /\ analysis' \in {ProtectiveFactorResponse(data, result) :
                         result \in ProtectiveFactorAnalysis(data)}
    /\ pc' = "response"
    /\ UNCHANGED <<data, df, is_vulnerable, baseline_df, recommendation,
                   x_values, y_values, calls>>

----------------------------------------------------------------------------
(* Specification of the insight: batches whose days have a vacation day,   *)
(* holidays, a walk, holidays with a walk, or nothing, and tic counts that *)
(* put the reductions in every tier.                                       *)

MaxInsightDays == 3

VacationDay == <<"V", "a", "c", "a", "t", "i", "o", "n", " ", "D", "a", "y">>

Holidays == <<"H", "o", "l", "i", "d", "a", "y", "s">>

Walk == <<"W", "a", "l", "k">>

InsightUses ==
    {<<>>, <<Helps(VacationDay)>>, <<Helps(Holidays)>>, <<Helps(Walk)>>,
     <<Helps(Holidays), Helps(Walk)>>}

InsightTics == {10, 17, 20, 30}

\* one more day in the batch, in ascending date order
LogInsightDay ==
    /\ pc = "batch"
    /\ Len(data) < MaxInsightDays
    /\ \E tics \in InsightTics, custom \in InsightUses :
         data' = Append(data, Entry(Len(data) + 1, <<16>>, <<1>>, <<90>>, <<tics>>, custom))
    /\ UNCHANGED <<df, is_vulnerable, baseline_df, recommendation, analysis,
                   x_values, y_values, pc, calls>>

NextInsight == LogInsightDay \/ GetProtectiveFactorAnalysis

SpecInsight == InitBatch /\ [][NextInsight]_vars

\* the messages on the best factor, from the strongest to the softest
TierMessages ==
    {"MVP, try your best daily option instead",
     "MVP, add small versions to your routine",
     "MVP, your secret weapon",
     "Top Helper", "shows promise", "needs more data"}

\* the messages of the response that are on the best factor
TierInsights ==
    SelectSeq(analysis.insight_message, LAMBDA m : m.message \in TierMessages)

\* the factors of the ranking that are not rare and reduce the tics
RegularFactors ==
    {f \in {analysis.all_factors[i] : i \in 1..Len(analysis.all_factors)} :
        ~IsRare(f.name) /\ f.tic_reduction_pct > 0}

\* C26: in an answer with a best factor there is exactly one message on
\* it.  With a reduction over 20 % and a rare name, the daily option that
\* is recommended is a factor of the ranking that is not rare and has the
\* highest positive tic_reduction_pct of the factors that are not rare (no
\* option is named when there is none); with a reduction over 20 % and a
\* name that is not rare the factor itself is reported; reductions in
\* (10, 20], (0, 10] and up to 0 give the three softer messages.
C26_InsightTiers ==
    (pc = "response" /\ "insight_message" \in DOMAIN analysis
                     /\ analysis.best_factor # <<>>) =>
        LET best == analysis.best_factor[1]
            reduction == best.tic_reduction_pct
        IN  /\ Len(TierInsights) = 1
            /\ TierInsights[1].name = best.name
            /\ (reduction > 200 /\ IsRare(best.name)) =>
                   IF RegularFactors # {}
                   THEN /\ TierInsights[1].message = "MVP, try your best daily option instead"
                        /\ TierInsights[1].alt \in RegularFactors
                        /\ ~IsRare(TierInsights[1].alt.name)
                        /\ \A f \in RegularFactors :
                               f.tic_reduction_pct <= TierInsights[1].alt.tic_reduction_pct
                   ELSE TierInsights[1].message = "MVP, add small versions to your routine"
            /\ (reduction > 200 /\ ~IsRare(best.name)) =>
                   TierInsights[1].message = "MVP, your secret weapon"
            /\ (100 < reduction /\ reduction <= 200) =>
                   TierInsights[1].message = "Top Helper"
            /\ (0 < reduction /\ reduction <= 100) =>
                   TierInsights[1].message = "shows promise"
            /\ reduction <= 0 => TierInsights[1].message = "needs more data"

\* the best factor is the vacation day, with a reduction over 20 %, the
\* holidays come second, and the walk is recommended as the daily option
C26_Witness_WalkInsteadOfVacation ==
    /\ pc = "response"
    /\ "insight_message" \in DOMAIN analysis
    /\ analysis.best_factor # <<>>
    /\ analysis.best_factor[1].name = VacationDay
    /\ analysis.best_factor[1].tic_reduction_pct > 200
    /\ analysis.insight_message[1].message = "MVP, try your best daily option instead"
    /\ analysis.insight_message[1].alt.name = Walk
    /\ Len(analysis.all_factors) = 3
    /\ analysis.all_factors[2].name = Holidays
    /\ analysis.all_factors[2].tic_reduction_pct > 0

----------------------------------------------------------------------------
(* Specification of the two TNLs of app.py: batches of valid days whose    *)
(* custom factors have a level of 1 or another level, given to             *)
(* calculate_daily_metrics and then to analyze_protective_factors.         *)

MaxPolicyDays == 3

\* an aggravating factor of level 1, for which effect and level * effect
\* are the same
Mild == [name |-> "noise", level |-> 1, effect |-> 2]

PolicyUses == {<<>>, <<Mild>>, <<Aggravating>>, <<Mild, Protective>>}

\* one more day in the batch, in ascending date order
LogPolicyDay ==
    /\ pc = "batch"
    /\ Len(data) < MaxPolicyDays
    /\ \E study \in {90, 450}, custom \in PolicyUses :
         data' = Append(data, Entry(Len(data) + 1, <<16>>, <<2>>, <<study>>, <<3>>, custom))
    /\ UNCHANGED <<df, is_vulnerable, baseline_df, recommendation, analysis,
                   x_values, y_values, pc, calls>>

NextPolicy == LogPolicyDay \/ CalculateDailyMetricsApp \/ AnalyzeProtectiveFactors

SpecPolicy == InitBatch /\ [][NextPolicy]_vars

\* C27: for every day of the batch, the TNL analyze_protective_factors
\* computes inline is the TNL of the day in the per-day table of app.py's
\* calculate_daily_metrics (the days of a batch of up to three days are all
\* in top_3_best_days).
C27_InlineTnlIsTableTnl ==
    (pc = "protective_factors" /\ df # <<>>) =>
        \A d \in 1..Len(analysis.top_3_best_days), r \in 1..Len(df) :
            df[r].date = analysis.top_3_best_days[d].date =>
                df[r].TNL = analysis.top_3_best_days[d].tnl

----------------------------------------------------------------------------
(* Specification of the thirds: batches of up to MaxThirdDays days, with   *)
(* nights of 6, 7 and 8 hours and tic counts of 3, 1 and 0, or no sleep    *)
(* logged, given to calculate_sleep_analysis.                              *)

MaxThirdDays == 7

\* <<sleep_hours in half hours or no entry, tics>>
ThirdsNights == {<<<<12>>, 3>>, <<<<14>>, 1>>, <<<<16>>, 0>>, <<<<>>, 5>>}

\* one more day in the batch, in ascending date order
LogThirdsNight ==
    /\ pc = "batch"
    /\ Len(data) < MaxThirdDays
    /\ \E st \in ThirdsNights :
         data' = Append(data, Entry(Len(data) + 1, st[1], <<1>>, <<90>>, <<st[2]>>, <<>>))
    /\ UNCHANGED <<df, is_vulnerable, baseline_df, recommendation, analysis,
                   x_values, y_values, pc, calls>>

NextThirds == LogThirdsNight \/ CalculateSleepAnalysis

SpecThirds == InitBatch /\ [][NextThirds]_vars

\* the positions in recent_data of the nights of a list
Positions(nights) == {nights[k].src : k \in 1..Len(nights)}

\* the sum of the sleep of the nights of a list, in half hours
SleepSum(nights) == SeqSum([k \in 1..Len(nights) |-> nights[k].sleep])

\* C28: when calculate_sleep_analysis has its n >= 5 logged nights, the
\* best days are floor(n/3) nights none of which has more tics than a night
\* left out, the worst days floor(n/3) nights none of which has fewer tics
\* than a night left out; neither group is empty and no night is in both;
\* optimal_sleep is the mean sleep of the best days and worst_sleep that of
\* the worst days, both rounded to one decimal.
C28_ThirdsOfLoggedNights ==
    SleepAnalysed =>
        LET nights == LoggedNights(RecentData(data))
            n == Len(nights)
            best == BestDaysSleep(SortByTics(nights))
            worst == WorstDaysSleep(SortByTics(nights))
        IN  /\ n >= MIN_NIGHTS_LOGGED
            /\ Len(best) = n \div 3
            /\ Len(worst) = n \div 3
            /\ Cardinality(Positions(best)) = n \div 3
            /\ Cardinality(Positions(worst)) = n \div 3
            /\ n \div 3 >= 1
            /\ Positions(best) \cap Positions(worst) = {}
            /\ \A b \in 1..Len(best), k \in 1..n :
                   nights[k].src \notin Positions(best) => best[b].tics <= nights[k].tics
            /\ \A w \in 1..Len(worst), k \in 1..n :
                   nights[k].src \notin Positions(worst) => worst[w].tics >= nights[k].tics
            /\ IsRounded(analysis.optimal_sleep_hours, 5 * SleepSum(best), Len(best))
            /\ \A worst_sleep \in WorstSleep(nights) :
                   IsRounded(worst_sleep, 5 * SleepSum(worst), Len(worst))

\* seven logged nights, the two with the fewest tics submitted last and the
\* two with the most submitted first: the best days are the nights of 8
\* hours and the worst days the nights of 6
C28_Witness_TwoOfSeven ==
    /\ SleepAnalysed
    /\ Len(data) = 7
    /\ \A k \in 1..7 : data[k].sleep_hours # <<>>
    /\ data[1].tic_count = <<3>>
    /\ data[2].tic_count = <<3>>
    /\ data[6].tic_count = <<0>>
    /\ data[7].tic_count = <<0>>
    /\ \A k \in 3..5 : data[k].tic_count = <<1>>
    /\ analysis.optimal_sleep_hours = 80
    /\ WorstSleep(LoggedNights(RecentData(data))) = {60}

----------------------------------------------------------------------------
(* Specification of the recent days: batches of up to MaxRecent records in *)
(* ascending or in descending date order, every night logged and at most   *)
(* one of them short, given to calculate_sleep_analysis.                   *)

MaxRecent == 15

\* <<sleep in half hours, tics>>: a night of 8 hours, and a short one of 6
FullNight == <<16, 0>>

ShortNight == <<12, 3>>

\* the nights the next record may have: the batch has one short night at most
RecentNights ==
    IF \E k \in 1..Len(data) : data[k].sleep_hours = <<ShortNight[1]>>
    THEN {FullNight} ELSE {FullNight, ShortNight}

\* the date of the next record: the batch goes on in the order of its first
\* record, oldest first or newest first
NextDate ==
    IF data = <<>> THEN {1, MaxRecent}
    ELSE IF data[1].date = 1 THEN {Len(data) + 1} ELSE {MaxRecent - Len(data)}

\* one more record in the batch
LogRecentNight ==
    /\ pc = "batch"
    /\ Len(data) < MaxRecent
    /\ \E st \in RecentNights, date \in NextDate :
         data' = Append(data, Entry(date, <<st[1]>>, <<1>>, <<90>>, <<st[2]>>, <<>>))
    /\ UNCHANGED <<df, is_vulnerable, baseline_df, recommendation, analysis,
                   x_values, y_values, pc, calls>>

NextRecent == LogRecentNight \/ CalculateSleepAnalysis

SpecRecent == InitBatch /\ [][NextRecent]_vars

\* the records of the batch with the 14 most recent dates
MostRecentDates ==
    SelectSeq(data, LAMBDA entry :
        Cardinality({k \in 1..Len(data) : data[k].date > entry.date}) < RECENT_DAYS)

\* C29: of a batch of more than 14 records, in whatever order they were
\* submitted, the days calculate_sleep_analysis analyses are the records
\* with the 14 most recent dates: days_analyzed counts the logged nights
\* among them and avg_sleep_hours is the mean of their sleep.
C29_FourteenMostRecentDates ==
    (SleepAnalysed /\ Len(data) > RECENT_DAYS) =>
        LET nights == LoggedNights(MostRecentDates)
        IN  /\ analysis.days_analyzed = Len(nights)
            /\ IsRounded(analysis.avg_sleep_hours, 5 * SleepSum(nights), Len(nights))

----------------------------------------------------------------------------
(* C30: for every protective factor the days with it and the days without  *)
(* it partition the batch: the tic counts averaged as 'with' are one per   *)
(* day on which the factor had a negative impact, those averaged as        *)
(* 'without' one per other day, times_used is the number of the days with  *)
(* the factor, and the two group sizes add up to total_days_analyzed; this *)
(* also when a day lists the factor more than once.                        *)
C30_WithAndWithoutPartition ==
    FactorsAnalysed =>
        \A name \in ProtectiveNames :
            LET daily_info == DailyInfo(data)
                factor_info == FactorData(Usages(daily_info, 1), name)
                days_with_factor_tics == factor_info.tic_counts
                days_without_factor_tics ==
                    DaysWithoutFactorTics(daily_info, factor_info.days_used)
            IN  /\ Len(days_with_factor_tics) = Cardinality(DaysWith(name))
                /\ Len(days_without_factor_tics) = Cardinality(DaysWithout(name))
                /\ ReportedEntry(name).times_used = Cardinality(DaysWith(name))
                /\ Len(days_with_factor_tics) + Len(days_without_factor_tics)
                       = analysis.total_days_analyzed

====
